---- MODULE Spec2Model ----
(***************************************************************************)
(* Notebook Navigator: sort resolution and file sorting (utils/sortUtils), *)
(* the icon picker modal (modals/IconPickerModal) with its emoji picker    *)
(* (components/EmojiPicker) and the emoji classifier (utils/iconUtils).    *)
(*                                                                         *)
(* The module holds several specifications over one list of variables.    *)
(* Each specification drives its own variables and pins the others.       *)
(***************************************************************************)
EXTENDS Integers, Sequences, FiniteSets, TLC

VARIABLES
    \* ---- sort resolver (getEffectiveSortOption) ----
    settings,        \* [defaultFolderSort, folderSortOverrides, tagSortOverrides]
    selectionType,   \* ItemType.FOLDER or ItemType.TAG
    selectedFolder,  \* NULL or a folder [path |-> ...]
    selectedTag,     \* UNDEFINED, NULL or a tag name (a string, possibly empty)
    effectiveSort,   \* the value returned by the last call, NONE before any call
    \* ---- sortFiles ----
    sortInput,       \* the file array as handed to sortFiles
    files,           \* the file array (mutated in place by sortFiles)
    sortOption,      \* the option sortFiles was called with, NONE before the call
    defaultLocale,   \* the default locale of the runtime, which localeCompare uses
    \* ---- IconPickerModal: constructor arguments and what it derives ----
    itemPath,
    itemType,
    allIcons,             \* getIconIds(), read once by the constructor
    suppliedRecentlyUsed, \* the constructor's argument recentlyUsedIcons
    recentlyUsedIcons,
    recentlyUsedEmojis,
    selectionBudget,      \* how many selectIcon calls the run follows
    burstBudget,          \* how many input events of a burst the run counts
    \* ---- IconPickerModal: fields ----
    focusedIndex,
    searchInputKeydownHandler,  \* TRUE when the field holds a handler, FALSE when null
    contentElKeydownHandler,    \* TRUE when the field holds a handler, FALSE when null
    searchDebounceTimer,        \* 0 when null, else the id setTimeout returned
    activeTab,
    reactRoot,                  \* 0 when null, 1 when the field holds a root
    \* ---- the document and the event loop ----
    isOpen,               \* the modal is displayed (between open() and close())
    searchValue,          \* searchInput.value
    searchVisible,        \* the search container's display is not 'none'
    searchListeners,      \* keydown listeners attached to the current search input
    contentListeners,     \* keydown listeners attached to contentEl
    gridItems,            \* the .nn-icon-item elements of resultsContainer (their ids)
    emptyMessage,         \* the empty-state message shown, NoMessage when none
    moreMessage,          \* the count of the overflow message, 0 when none
    domFocus,             \* document.activeElement
    emojiPicker,          \* how far React has got with the root's EmojiPicker
    emojiInputValue,      \* the EmojiPicker's inputValue state
    pendingTimers,        \* the ids of the timeouts that are set and have not run
    refiltersSinceInput,  \* updateResults runs by a timer since the last input event
    burstInputs,          \* the input events of the current or the last burst,
                          \* counted up to burstBudget; 0 after a close
    lastEvent,            \* the event the last step handled: [name, key, shift]
    \* ---- the metadata service and the running selectIcon calls ----
    calls,                \* the calls made to setFolderIcon / setTagIcon, in order
    selections,           \* one record per selectIcon call, in call order
    \* ---- isEmoji called with a value of any type ----
    classifierInput,      \* the argument: [type, str, num]
    classifierResult,     \* [done, value]: the value returned by the call
    \* ---- FileItem ----
    featureInput,         \* what the feature image is computed from
    featureImageUrl,      \* [done, url]: the value of the featureImageUrl memo
    resourceCalls,        \* the files getResourcePath was called with, in order
    memoProps,            \* [prev, next]: the props of two successive renders
    memoResult,           \* [done, equal]: what the memo comparator returned
    dateInput,            \* what the display date is computed from
    displayDate           \* [done, text]: the value of the displayDate memo

sortVars == <<sortInput, files, sortOption, defaultLocale>>
resolverVars == <<settings, selectionType, selectedFolder, selectedTag, effectiveSort>>
ctorVars ==
    <<itemPath, itemType, allIcons, suppliedRecentlyUsed, recentlyUsedIcons,
      recentlyUsedEmojis, selectionBudget, burstBudget>>
handlerVars ==
    <<searchInputKeydownHandler, contentElKeydownHandler, searchListeners, contentListeners>>
timerVars == <<searchDebounceTimer, pendingTimers, refiltersSinceInput, burstInputs>>
resultVars ==
    <<gridItems, emptyMessage, moreMessage, reactRoot, emojiPicker, emojiInputValue>>
asyncVars == <<calls, selections>>
\* What no handler of the modal writes.
classifierVars == <<classifierInput, classifierResult>>
fileItemVars ==
    <<featureInput, featureImageUrl, resourceCalls, memoProps, memoResult, dateInput,
      displayDate>>
pureVars == <<classifierVars, fileItemVars>>
restVars == <<ctorVars, resolverVars, sortVars, pureVars>>
modalVars ==
    <<ctorVars, handlerVars, timerVars, resultVars, asyncVars, focusedIndex, activeTab,
      isOpen, searchValue, searchVisible, domFocus, lastEvent>>

\* JavaScript's null and undefined for string-valued slots, and "no value yet"
\* for the observers of the model.
NULL == "<null>"
UNDEFINED == "<undefined>"
NONE == "<none>"

\* null for object-valued slots (TFolder | null).
NullObject == [isNull |-> TRUE]

\* An optional map (settings.folderSortOverrides?: Record<string, SortOption>).
AbsentMap == [present |-> FALSE]
PresentMap(m) == [present |-> TRUE, map |-> m]

\* JavaScript truthiness of a string-valued slot and of an object-valued slot.
TruthyString(v) == v # NULL /\ v # UNDEFINED /\ v # ""
TruthyObject(o) == o # NullObject

-----------------------------------------------------------------------------
(***************************************************************************)
(* utils/sortUtils                                                         *)
(***************************************************************************)

ItemTypeFOLDER == "folder"
ItemTypeTAG == "tag"

SORT_OPTIONS ==
    <<"modified-desc", "modified-asc", "created-desc", "created-asc",
      "title-asc", "title-desc">>

SortOptionSet == {SORT_OPTIONS[i] : i \in 1..Len(SORT_OPTIONS)}

\* The override maps are plain objects (plugin settings loaded from JSON), so
\* a member access that finds no own property goes on to Object.prototype and
\* finds what every object inherits.
ObjectPrototypeKeys ==
    {"constructor", "toString", "toLocaleString", "valueOf", "hasOwnProperty",
     "isPrototypeOf", "propertyIsEnumerable", "__proto__", "__defineGetter__",
     "__defineSetter__", "__lookupGetter__", "__lookupSetter__"}

\* The inherited member: a function (for __proto__ the prototype object),
\* in either case a truthy value that is no sort option.
InheritedMember(key) == "<inherited " \o key \o ">"

\* map[key] on a plain object: the own property, else the inherited one,
\* else undefined.
MemberAccess(map, key) ==
    IF key \in DOMAIN map THEN map[key]
    ELSE IF key \in ObjectPrototypeKeys THEN InheritedMember(key)
    ELSE UNDEFINED

\* map?.[key]: undefined when the map is absent, else the member access.
OptionalLookup(m, key) ==
    IF ~m.present THEN UNDEFINED
    ELSE MemberAccess(m.map, key)

\* A plausible slip: the folder branch does not test the selection type.
getEffectiveSortOption_FolderAnyType(s, selType, folder, tag) ==
    IF /\ TruthyObject(folder)
       /\ TruthyString(OptionalLookup(s.folderSortOverrides, folder.path))
    THEN MemberAccess(s.folderSortOverrides.map, folder.path)
    ELSE IF /\ selType = ItemTypeTAG
            /\ TruthyString(tag)
            /\ TruthyString(OptionalLookup(s.tagSortOverrides, tag))
    THEN MemberAccess(s.tagSortOverrides.map, tag)
    ELSE s.defaultFolderSort

\* A plausible slip: the tag branch does not test the selection type.
getEffectiveSortOption_NoTypeTest(s, selType, folder, tag) ==
    IF /\ selType = ItemTypeFOLDER
       /\ TruthyObject(folder)
       /\ TruthyString(OptionalLookup(s.folderSortOverrides, folder.path))
    THEN MemberAccess(s.folderSortOverrides.map, folder.path)
    ELSE IF /\ TruthyString(tag)
            /\ TruthyString(OptionalLookup(s.tagSortOverrides, tag))
    THEN MemberAccess(s.tagSortOverrides.map, tag)
    ELSE s.defaultFolderSort

getEffectiveSortOption(s, selType, folder, tag) ==
    IF /\ selType = ItemTypeFOLDER
       /\ TruthyObject(folder)
       /\ TruthyString(OptionalLookup(s.folderSortOverrides, folder.path))
    THEN MemberAccess(s.folderSortOverrides.map, folder.path)
    ELSE IF /\ selType = ItemTypeTAG
            /\ TruthyString(tag)
            /\ TruthyString(OptionalLookup(s.tagSortOverrides, tag))
    THEN MemberAccess(s.tagSortOverrides.map, tag)
    ELSE s.defaultFolderSort

\* getDateField: sortOption.startsWith('created') ? 'ctime' : 'mtime'
getDateField(option) ==
    IF Len(option) >= 7 /\ SubSeq(option, 1, 7) = "created"
    THEN "ctime" ELSE "mtime"

\* ---- the inputs of the resolver ----
FolderPaths == {"/", "notes"}
TagNames == {"todo", "work"}
OverrideValues == {"created-asc", "title-desc"}

PartialMaps(keys, vals) == UNION {[d -> vals] : d \in SUBSET keys}
OptionalMaps(keys, vals) ==
    {AbsentMap} \cup {PresentMap(m) : m \in PartialMaps(keys, vals)}

SettingsSet ==
    [defaultFolderSort : SortOptionSet,
     folderSortOverrides : OptionalMaps(FolderPaths, OverrideValues),
     tagSortOverrides : OptionalMaps(TagNames \cup {""}, OverrideValues)]

\* Selections: besides the folders and tags that may carry an override, a
\* folder and a tag whose name is a member every object inherits.
InheritedNames == {"constructor", "__defineGetter__"}
FolderSet ==
    {NullObject}
        \cup {[isNull |-> FALSE, path |-> p] : p \in FolderPaths \cup InheritedNames}
TagSet == {UNDEFINED, NULL, ""} \cup TagNames \cup InheritedNames

Resolve ==
    /\ effectiveSort = NONE
    /\ effectiveSort' =
           getEffectiveSortOption(settings, selectionType, selectedFolder, selectedTag)
    /\ UNCHANGED <<settings, selectionType, selectedFolder, selectedTag>>
    /\ UNCHANGED <<sortVars, modalVars, pureVars>>

\* ---- sortFiles ----
MaxFiles == 3
MaxTime == 3
CreatedTimes == {1, 2}
Basenames == {"b", "B"}

\* DateUtils.getFileTimestamp(file, field, settings, metadataCache): the timestamp
\* the date source resolves for the field (the file's own or a frontmatter one).
getFileTimestamp(file, field) ==
    IF field = "modified" THEN file.modified ELSE file.created

\* a.basename.localeCompare(b.basename) names no locale: the strings are
\* collated by the default locale of the runtime.  Of two strings that differ
\* in case only the lower-case one comes first in most locales (en-US, sv-SE)
\* and the upper-case one in Danish and Maltese (code unit order would put
\* "B" first everywhere).
DefaultLocales == {"en-US", "da-DK"}
UpperCaseFirstLocales == {"da-DK", "mt-MT"}

\* The collation rank localeCompare orders by under the default locale.
LocaleRank(str) ==
    IF defaultLocale \in UpperCaseFirstLocales
    THEN CASE str = "B" -> 1 [] str = "b" -> 2
    ELSE CASE str = "b" -> 1 [] str = "B" -> 2

Sign(n) == IF n < 0 THEN -1 ELSE IF n > 0 THEN 1 ELSE 0

localeCompare(a, b) == Sign(LocaleRank(a) - LocaleRank(b))

\* The comparator sortFiles hands to Array.prototype.sort for each option.
Comparator(opt, a, b) ==
    CASE opt = "modified-desc" ->
             getFileTimestamp(b, "modified") - getFileTimestamp(a, "modified")
      [] opt = "modified-asc" ->
             getFileTimestamp(a, "modified") - getFileTimestamp(b, "modified")
      [] opt = "created-desc" ->
             getFileTimestamp(b, "created") - getFileTimestamp(a, "created")
      [] opt = "created-asc" ->
             getFileTimestamp(a, "created") - getFileTimestamp(b, "created")
      [] opt = "title-asc" -> localeCompare(a.basename, b.basename)
      [] opt = "title-desc" -> localeCompare(b.basename, a.basename)

\* Array.prototype.sort is a stable sort: an element goes after every element
\* that does not compare greater than it.
RECURSIVE InsertStable(_, _, _)
InsertStable(opt, sorted, x) ==
    IF sorted = <<>> THEN <<x>>
    ELSE IF Comparator(opt, Head(sorted), x) <= 0
         THEN <<Head(sorted)>> \o InsertStable(opt, Tail(sorted), x)
         ELSE <<x>> \o sorted

RECURSIVE ArraySort(_, _)
ArraySort(opt, arr) ==
    IF arr = <<>> THEN <<>>
    ELSE InsertStable(opt, ArraySort(opt, SubSeq(arr, 1, Len(arr) - 1)), arr[Len(arr)])

\* A plausible slip: created-asc written with the operands the wrong way round.
sortFiles_CreatedAscSwapped(arr, opt) ==
    IF opt = "created-asc" THEN ArraySort("created-desc", arr)
    ELSE IF opt \in SortOptionSet THEN ArraySort(opt, arr)
    ELSE arr

\* A plausible slip: title-desc written with the comparator of title-asc.
sortFiles_TitleDescAsAsc(arr, opt) ==
    IF opt = "title-desc" THEN ArraySort("title-asc", arr)
    ELSE IF opt \in SortOptionSet THEN ArraySort(opt, arr)
    ELSE arr

sortFiles(arr, opt) ==
    IF opt \in SortOptionSet THEN ArraySort(opt, arr) ELSE arr

FileSet ==
    [modified : 1..MaxTime, created : CreatedTimes, basename : Basenames]

\* Files are distinct objects: each carries its position in the input as id.
FileArrays(n) ==
    {[i \in 1..n |-> [id |-> i, modified |-> a[i].modified,
                      created |-> a[i].created, basename |-> a[i].basename]]
     : a \in [1..n -> FileSet]}

SortFiles(opt) ==
    /\ sortOption = NONE
    /\ files' = sortFiles(files, opt)
    /\ sortOption' = opt
    /\ UNCHANGED <<sortInput, defaultLocale, resolverVars, modalVars, pureVars>>

-----------------------------------------------------------------------------
(***************************************************************************)
(* Strings.  A string is the sequence of its code points; Str converts an  *)
(* ASCII literal.                                                          *)
(***************************************************************************)

LowerLetters == "abcdefghijklmnopqrstuvwxyz"
UpperLetters == "ABCDEFGHIJKLMNOPQRSTUVWXYZ"

HYPHEN == 45
SPACE == 32

CodePointOf(ch) ==
    IF \E i \in 1..26 : SubSeq(LowerLetters, i, i) = ch
    THEN 96 + (CHOOSE i \in 1..26 : SubSeq(LowerLetters, i, i) = ch)
    ELSE IF \E i \in 1..26 : SubSeq(UpperLetters, i, i) = ch
    THEN 64 + (CHOOSE i \in 1..26 : SubSeq(UpperLetters, i, i) = ch)
    ELSE IF ch = "-" THEN HYPHEN
    ELSE SPACE

Str(lit) == [i \in 1..Len(lit) |-> CodePointOf(SubSeq(lit, i, i))]


\* String.prototype.toLowerCase / toUpperCase: the locale-independent full
\* case mapping of Unicode (UnicodeData.txt and the unconditional entries of
\* SpecialCasing.txt).  Basic Latin is computed; the tables hold every other
\* code point that has a mapping: those of version 14.0 and, at the end of
\* each table, those added up to version 17.0.

\* Code points with a one-to-one lower-case mapping, as
\* <<first, last, step, delta>>: every step-th code point from first to last
\* maps to itself plus delta.
LowerCaseRanges ==
  <<
    <<192, 214, 1, 32>>, <<216, 222, 1, 32>>, <<256, 302, 2, 1>>,
    <<306, 310, 2, 1>>, <<313, 327, 2, 1>>, <<330, 374, 2, 1>>,
    <<376, 376, 1, -121>>, <<377, 381, 2, 1>>, <<385, 385, 1, 210>>,
    <<386, 388, 2, 1>>, <<390, 390, 1, 206>>, <<391, 391, 1, 1>>,
    <<393, 394, 1, 205>>, <<395, 395, 1, 1>>, <<398, 398, 1, 79>>,
    <<399, 399, 1, 202>>, <<400, 400, 1, 203>>, <<401, 401, 1, 1>>,
    <<403, 403, 1, 205>>, <<404, 404, 1, 207>>, <<406, 406, 1, 211>>,
    <<407, 407, 1, 209>>, <<408, 408, 1, 1>>, <<412, 412, 1, 211>>,
    <<413, 413, 1, 213>>, <<415, 415, 1, 214>>, <<416, 420, 2, 1>>,
    <<422, 422, 1, 218>>, <<423, 423, 1, 1>>, <<425, 425, 1, 218>>,
    <<428, 428, 1, 1>>, <<430, 430, 1, 218>>, <<431, 431, 1, 1>>,
    <<433, 434, 1, 217>>, <<435, 437, 2, 1>>, <<439, 439, 1, 219>>,
    <<440, 440, 1, 1>>, <<444, 444, 1, 1>>, <<452, 452, 1, 2>>,
    <<453, 453, 1, 1>>, <<455, 455, 1, 2>>, <<456, 456, 1, 1>>,
    <<458, 458, 1, 2>>, <<459, 475, 2, 1>>, <<478, 494, 2, 1>>,
    <<497, 497, 1, 2>>, <<498, 500, 2, 1>>, <<502, 502, 1, -97>>,
    <<503, 503, 1, -56>>, <<504, 542, 2, 1>>, <<544, 544, 1, -130>>,
    <<546, 562, 2, 1>>, <<570, 570, 1, 10795>>, <<571, 571, 1, 1>>,
    <<573, 573, 1, -163>>, <<574, 574, 1, 10792>>, <<577, 577, 1, 1>>,
    <<579, 579, 1, -195>>, <<580, 580, 1, 69>>, <<581, 581, 1, 71>>,
    <<582, 590, 2, 1>>, <<880, 882, 2, 1>>, <<886, 886, 1, 1>>,
    <<895, 895, 1, 116>>, <<902, 902, 1, 38>>, <<904, 906, 1, 37>>,
    <<908, 908, 1, 64>>, <<910, 911, 1, 63>>, <<913, 929, 1, 32>>,
    <<931, 939, 1, 32>>, <<975, 975, 1, 8>>, <<984, 1006, 2, 1>>,
    <<1012, 1012, 1, -60>>, <<1015, 1015, 1, 1>>, <<1017, 1017, 1, -7>>,
    <<1018, 1018, 1, 1>>, <<1021, 1023, 1, -130>>, <<1024, 1039, 1, 80>>,
    <<1040, 1071, 1, 32>>, <<1120, 1152, 2, 1>>, <<1162, 1214, 2, 1>>,
    <<1216, 1216, 1, 15>>, <<1217, 1229, 2, 1>>, <<1232, 1326, 2, 1>>,
    <<1329, 1366, 1, 48>>, <<4256, 4293, 1, 7264>>, <<4295, 4295, 1, 7264>>,
    <<4301, 4301, 1, 7264>>, <<5024, 5103, 1, 38864>>, <<5104, 5109, 1, 8>>,
    <<7312, 7354, 1, -3008>>, <<7357, 7359, 1, -3008>>, <<7680, 7828, 2, 1>>,
    <<7838, 7838, 1, -7615>>, <<7840, 7934, 2, 1>>, <<7944, 7951, 1, -8>>,
    <<7960, 7965, 1, -8>>, <<7976, 7983, 1, -8>>, <<7992, 7999, 1, -8>>,
    <<8008, 8013, 1, -8>>, <<8025, 8031, 2, -8>>, <<8040, 8047, 1, -8>>,
    <<8072, 8079, 1, -8>>, <<8088, 8095, 1, -8>>, <<8104, 8111, 1, -8>>,
    <<8120, 8121, 1, -8>>, <<8122, 8123, 1, -74>>, <<8124, 8124, 1, -9>>,
    <<8136, 8139, 1, -86>>, <<8140, 8140, 1, -9>>, <<8152, 8153, 1, -8>>,
    <<8154, 8155, 1, -100>>, <<8168, 8169, 1, -8>>, <<8170, 8171, 1, -112>>,
    <<8172, 8172, 1, -7>>, <<8184, 8185, 1, -128>>, <<8186, 8187, 1, -126>>,
    <<8188, 8188, 1, -9>>, <<8486, 8486, 1, -7517>>,
    <<8490, 8490, 1, -8383>>, <<8491, 8491, 1, -8262>>,
    <<8498, 8498, 1, 28>>, <<8544, 8559, 1, 16>>, <<8579, 8579, 1, 1>>,
    <<9398, 9423, 1, 26>>, <<11264, 11311, 1, 48>>, <<11360, 11360, 1, 1>>,
    <<11362, 11362, 1, -10743>>, <<11363, 11363, 1, -3814>>,
    <<11364, 11364, 1, -10727>>, <<11367, 11371, 2, 1>>,
    <<11373, 11373, 1, -10780>>, <<11374, 11374, 1, -10749>>,
    <<11375, 11375, 1, -10783>>, <<11376, 11376, 1, -10782>>,
    <<11378, 11378, 1, 1>>, <<11381, 11381, 1, 1>>,
    <<11390, 11391, 1, -10815>>, <<11392, 11490, 2, 1>>,
    <<11499, 11501, 2, 1>>, <<11506, 11506, 1, 1>>, <<42560, 42604, 2, 1>>,
    <<42624, 42650, 2, 1>>, <<42786, 42798, 2, 1>>, <<42802, 42862, 2, 1>>,
    <<42873, 42875, 2, 1>>, <<42877, 42877, 1, -35332>>,
    <<42878, 42886, 2, 1>>, <<42891, 42891, 1, 1>>,
    <<42893, 42893, 1, -42280>>, <<42896, 42898, 2, 1>>,
    <<42902, 42920, 2, 1>>, <<42922, 42922, 1, -42308>>,
    <<42923, 42923, 1, -42319>>, <<42924, 42924, 1, -42315>>,
    <<42925, 42925, 1, -42305>>, <<42926, 42926, 1, -42308>>,
    <<42928, 42928, 1, -42258>>, <<42929, 42929, 1, -42282>>,
    <<42930, 42930, 1, -42261>>, <<42931, 42931, 1, 928>>,
    <<42932, 42946, 2, 1>>, <<42948, 42948, 1, -48>>,
    <<42949, 42949, 1, -42307>>, <<42950, 42950, 1, -35384>>,
    <<42951, 42953, 2, 1>>, <<42960, 42960, 1, 1>>, <<42966, 42968, 2, 1>>,
    <<42997, 42997, 1, 1>>, <<65313, 65338, 1, 32>>, <<66560, 66599, 1, 40>>,
    <<66736, 66771, 1, 40>>, <<66928, 66964, 2, 39>>,
    <<66929, 66937, 2, 39>>, <<66941, 66953, 2, 39>>,
    <<66957, 66961, 2, 39>>, <<66965, 66965, 1, 39>>,
    <<68736, 68786, 1, 64>>, <<71840, 71871, 1, 32>>,
    <<93760, 93791, 1, 32>>, <<125184, 125217, 1, 34>>,
    <<7305, 7305, 1, 1>>, <<42955, 42955, 1, -42343>>, <<42956, 42958, 2, 1>>,
    <<42962, 42964, 2, 1>>, <<42970, 42970, 1, 1>>, <<42972, 42972, 1, -42561>>,
    <<68944, 68965, 1, 32>>, <<93856, 93880, 1, 27>>
  >>

\* Code points whose lower case is more than one code point.
LowerCaseSpecial ==
  <<
    <<304, <<105, 775>>>>
  >>

\* Code points with a one-to-one upper-case mapping.
UpperCaseRanges ==
  <<
    <<181, 181, 1, 743>>, <<224, 246, 1, -32>>, <<248, 254, 1, -32>>,
    <<255, 255, 1, 121>>, <<257, 303, 2, -1>>, <<305, 305, 1, -232>>,
    <<307, 311, 2, -1>>, <<314, 328, 2, -1>>, <<331, 375, 2, -1>>,
    <<378, 382, 2, -1>>, <<383, 383, 1, -300>>, <<384, 384, 1, 195>>,
    <<387, 389, 2, -1>>, <<392, 392, 1, -1>>, <<396, 396, 1, -1>>,
    <<402, 402, 1, -1>>, <<405, 405, 1, 97>>, <<409, 409, 1, -1>>,
    <<410, 410, 1, 163>>, <<414, 414, 1, 130>>, <<417, 421, 2, -1>>,
    <<424, 424, 1, -1>>, <<429, 429, 1, -1>>, <<432, 432, 1, -1>>,
    <<436, 438, 2, -1>>, <<441, 441, 1, -1>>, <<445, 445, 1, -1>>,
    <<447, 447, 1, 56>>, <<453, 453, 1, -1>>, <<454, 454, 1, -2>>,
    <<456, 456, 1, -1>>, <<457, 457, 1, -2>>, <<459, 459, 1, -1>>,
    <<460, 460, 1, -2>>, <<462, 476, 2, -1>>, <<477, 477, 1, -79>>,
    <<479, 495, 2, -1>>, <<498, 498, 1, -1>>, <<499, 499, 1, -2>>,
    <<501, 501, 1, -1>>, <<505, 543, 2, -1>>, <<547, 563, 2, -1>>,
    <<572, 572, 1, -1>>, <<575, 576, 1, 10815>>, <<578, 578, 1, -1>>,
    <<583, 591, 2, -1>>, <<592, 592, 1, 10783>>, <<593, 593, 1, 10780>>,
    <<594, 594, 1, 10782>>, <<595, 595, 1, -210>>, <<596, 596, 1, -206>>,
    <<598, 599, 1, -205>>, <<601, 601, 1, -202>>, <<603, 603, 1, -203>>,
    <<604, 604, 1, 42319>>, <<608, 608, 1, -205>>, <<609, 609, 1, 42315>>,
    <<611, 611, 1, -207>>, <<613, 613, 1, 42280>>, <<614, 614, 1, 42308>>,
    <<616, 616, 1, -209>>, <<617, 617, 1, -211>>, <<618, 618, 1, 42308>>,
    <<619, 619, 1, 10743>>, <<620, 620, 1, 42305>>, <<623, 623, 1, -211>>,
    <<625, 625, 1, 10749>>, <<626, 626, 1, -213>>, <<629, 629, 1, -214>>,
    <<637, 637, 1, 10727>>, <<640, 640, 1, -218>>, <<642, 642, 1, 42307>>,
    <<643, 643, 1, -218>>, <<647, 647, 1, 42282>>, <<648, 648, 1, -218>>,
    <<649, 649, 1, -69>>, <<650, 651, 1, -217>>, <<652, 652, 1, -71>>,
    <<658, 658, 1, -219>>, <<669, 669, 1, 42261>>, <<670, 670, 1, 42258>>,
    <<837, 837, 1, 84>>, <<881, 883, 2, -1>>, <<887, 887, 1, -1>>,
    <<891, 893, 1, 130>>, <<940, 940, 1, -38>>, <<941, 943, 1, -37>>,
    <<945, 961, 1, -32>>, <<962, 962, 1, -31>>, <<963, 971, 1, -32>>,
    <<972, 972, 1, -64>>, <<973, 974, 1, -63>>, <<976, 976, 1, -62>>,
    <<977, 977, 1, -57>>, <<981, 981, 1, -47>>, <<982, 982, 1, -54>>,
    <<983, 983, 1, -8>>, <<985, 1007, 2, -1>>, <<1008, 1008, 1, -86>>,
    <<1009, 1009, 1, -80>>, <<1010, 1010, 1, 7>>, <<1011, 1011, 1, -116>>,
    <<1013, 1013, 1, -96>>, <<1016, 1016, 1, -1>>, <<1019, 1019, 1, -1>>,
    <<1072, 1103, 1, -32>>, <<1104, 1119, 1, -80>>, <<1121, 1153, 2, -1>>,
    <<1163, 1215, 2, -1>>, <<1218, 1230, 2, -1>>, <<1231, 1231, 1, -15>>,
    <<1233, 1327, 2, -1>>, <<1377, 1414, 1, -48>>, <<4304, 4346, 1, 3008>>,
    <<4349, 4351, 1, 3008>>, <<5112, 5117, 1, -8>>, <<7296, 7296, 1, -6254>>,
    <<7297, 7297, 1, -6253>>, <<7298, 7298, 1, -6244>>,
    <<7299, 7300, 1, -6242>>, <<7301, 7301, 1, -6243>>,
    <<7302, 7302, 1, -6236>>, <<7303, 7303, 1, -6181>>,
    <<7304, 7304, 1, 35266>>, <<7545, 7545, 1, 35332>>,
    <<7549, 7549, 1, 3814>>, <<7566, 7566, 1, 35384>>, <<7681, 7829, 2, -1>>,
    <<7835, 7835, 1, -59>>, <<7841, 7935, 2, -1>>, <<7936, 7943, 1, 8>>,
    <<7952, 7957, 1, 8>>, <<7968, 7975, 1, 8>>, <<7984, 7991, 1, 8>>,
    <<8000, 8005, 1, 8>>, <<8017, 8023, 2, 8>>, <<8032, 8039, 1, 8>>,
    <<8048, 8049, 1, 74>>, <<8050, 8053, 1, 86>>, <<8054, 8055, 1, 100>>,
    <<8056, 8057, 1, 128>>, <<8058, 8059, 1, 112>>, <<8060, 8061, 1, 126>>,
    <<8112, 8113, 1, 8>>, <<8126, 8126, 1, -7205>>, <<8144, 8145, 1, 8>>,
    <<8160, 8161, 1, 8>>, <<8165, 8165, 1, 7>>, <<8526, 8526, 1, -28>>,
    <<8560, 8575, 1, -16>>, <<8580, 8580, 1, -1>>, <<9424, 9449, 1, -26>>,
    <<11312, 11359, 1, -48>>, <<11361, 11361, 1, -1>>,
    <<11365, 11365, 1, -10795>>, <<11366, 11366, 1, -10792>>,
    <<11368, 11372, 2, -1>>, <<11379, 11379, 1, -1>>,
    <<11382, 11382, 1, -1>>, <<11393, 11491, 2, -1>>,
    <<11500, 11502, 2, -1>>, <<11507, 11507, 1, -1>>,
    <<11520, 11557, 1, -7264>>, <<11559, 11559, 1, -7264>>,
    <<11565, 11565, 1, -7264>>, <<42561, 42605, 2, -1>>,
    <<42625, 42651, 2, -1>>, <<42787, 42799, 2, -1>>,
    <<42803, 42863, 2, -1>>, <<42874, 42876, 2, -1>>,
    <<42879, 42887, 2, -1>>, <<42892, 42892, 1, -1>>,
    <<42897, 42899, 2, -1>>, <<42900, 42900, 1, 48>>,
    <<42903, 42921, 2, -1>>, <<42933, 42947, 2, -1>>,
    <<42952, 42954, 2, -1>>, <<42961, 42961, 1, -1>>,
    <<42967, 42969, 2, -1>>, <<42998, 42998, 1, -1>>,
    <<43859, 43859, 1, -928>>, <<43888, 43967, 1, -38864>>,
    <<65345, 65370, 1, -32>>, <<66600, 66639, 1, -40>>,
    <<66776, 66811, 1, -40>>, <<66967, 67003, 2, -39>>,
    <<66968, 66976, 2, -39>>, <<66980, 66992, 2, -39>>,
    <<66996, 67000, 2, -39>>, <<67004, 67004, 1, -39>>,
    <<68800, 68850, 1, -64>>, <<71872, 71903, 1, -32>>,
    <<93792, 93823, 1, -32>>, <<125218, 125251, 1, -34>>,
    <<411, 411, 1, 42561>>, <<612, 612, 1, 42343>>, <<7306, 7306, 1, -1>>,
    <<42957, 42959, 2, -1>>, <<42963, 42965, 2, -1>>, <<42971, 42971, 1, -1>>,
    <<68976, 68997, 1, -32>>, <<93883, 93907, 1, -27>>
  >>

\* Code points whose upper case is more than one code point.
UpperCaseSpecial ==
  <<
    <<223, <<83, 83>>>>, <<329, <<700, 78>>>>, <<496, <<74, 780>>>>,
    <<912, <<921, 776, 769>>>>, <<944, <<933, 776, 769>>>>,
    <<1415, <<1333, 1362>>>>, <<7830, <<72, 817>>>>, <<7831, <<84, 776>>>>,
    <<7832, <<87, 778>>>>, <<7833, <<89, 778>>>>, <<7834, <<65, 702>>>>,
    <<8016, <<933, 787>>>>, <<8018, <<933, 787, 768>>>>,
    <<8020, <<933, 787, 769>>>>, <<8022, <<933, 787, 834>>>>,
    <<8064, <<7944, 921>>>>, <<8065, <<7945, 921>>>>,
    <<8066, <<7946, 921>>>>, <<8067, <<7947, 921>>>>,
    <<8068, <<7948, 921>>>>, <<8069, <<7949, 921>>>>,
    <<8070, <<7950, 921>>>>, <<8071, <<7951, 921>>>>,
    <<8072, <<7944, 921>>>>, <<8073, <<7945, 921>>>>,
    <<8074, <<7946, 921>>>>, <<8075, <<7947, 921>>>>,
    <<8076, <<7948, 921>>>>, <<8077, <<7949, 921>>>>,
    <<8078, <<7950, 921>>>>, <<8079, <<7951, 921>>>>,
    <<8080, <<7976, 921>>>>, <<8081, <<7977, 921>>>>,
    <<8082, <<7978, 921>>>>, <<8083, <<7979, 921>>>>,
    <<8084, <<7980, 921>>>>, <<8085, <<7981, 921>>>>,
    <<8086, <<7982, 921>>>>, <<8087, <<7983, 921>>>>,
    <<8088, <<7976, 921>>>>, <<8089, <<7977, 921>>>>,
    <<8090, <<7978, 921>>>>, <<8091, <<7979, 921>>>>,
    <<8092, <<7980, 921>>>>, <<8093, <<7981, 921>>>>,
    <<8094, <<7982, 921>>>>, <<8095, <<7983, 921>>>>,
    <<8096, <<8040, 921>>>>, <<8097, <<8041, 921>>>>,
    <<8098, <<8042, 921>>>>, <<8099, <<8043, 921>>>>,
    <<8100, <<8044, 921>>>>, <<8101, <<8045, 921>>>>,
    <<8102, <<8046, 921>>>>, <<8103, <<8047, 921>>>>,
    <<8104, <<8040, 921>>>>, <<8105, <<8041, 921>>>>,
    <<8106, <<8042, 921>>>>, <<8107, <<8043, 921>>>>,
    <<8108, <<8044, 921>>>>, <<8109, <<8045, 921>>>>,
    <<8110, <<8046, 921>>>>, <<8111, <<8047, 921>>>>,
    <<8114, <<8122, 921>>>>, <<8115, <<913, 921>>>>, <<8116, <<902, 921>>>>,
    <<8118, <<913, 834>>>>, <<8119, <<913, 834, 921>>>>,
    <<8124, <<913, 921>>>>, <<8130, <<8138, 921>>>>, <<8131, <<919, 921>>>>,
    <<8132, <<905, 921>>>>, <<8134, <<919, 834>>>>,
    <<8135, <<919, 834, 921>>>>, <<8140, <<919, 921>>>>,
    <<8146, <<921, 776, 768>>>>, <<8147, <<921, 776, 769>>>>,
    <<8150, <<921, 834>>>>, <<8151, <<921, 776, 834>>>>,
    <<8162, <<933, 776, 768>>>>, <<8163, <<933, 776, 769>>>>,
    <<8164, <<929, 787>>>>, <<8166, <<933, 834>>>>,
    <<8167, <<933, 776, 834>>>>, <<8178, <<8186, 921>>>>,
    <<8179, <<937, 921>>>>, <<8180, <<911, 921>>>>, <<8182, <<937, 834>>>>,
    <<8183, <<937, 834, 921>>>>, <<8188, <<937, 921>>>>,
    <<64256, <<70, 70>>>>, <<64257, <<70, 73>>>>, <<64258, <<70, 76>>>>,
    <<64259, <<70, 70, 73>>>>, <<64260, <<70, 70, 76>>>>,
    <<64261, <<83, 84>>>>, <<64262, <<83, 84>>>>, <<64275, <<1348, 1350>>>>,
    <<64276, <<1348, 1333>>>>, <<64277, <<1348, 1339>>>>,
    <<64278, <<1358, 1350>>>>, <<64279, <<1348, 1341>>>>
  >>

\* The Final_Sigma context of toLowerCase skips case-ignorable code points
\* and then looks for a cased letter.  Case-ignorable code points, as
\* <<first, last>>.
CaseIgnorableRanges ==
  <<
    <<39, 39>>, <<46, 46>>, <<58, 58>>, <<94, 94>>, <<96, 96>>, <<168, 168>>,
    <<173, 173>>, <<175, 175>>, <<180, 180>>, <<183, 184>>, <<688, 879>>,
    <<884, 885>>, <<890, 890>>, <<900, 901>>, <<903, 903>>, <<1155, 1161>>,
    <<1369, 1369>>, <<1375, 1375>>, <<1425, 1469>>, <<1471, 1471>>,
    <<1473, 1474>>, <<1476, 1477>>, <<1479, 1479>>, <<1524, 1524>>,
    <<1536, 1541>>, <<1552, 1562>>, <<1564, 1564>>, <<1600, 1600>>,
    <<1611, 1631>>, <<1648, 1648>>, <<1750, 1757>>, <<1759, 1768>>,
    <<1770, 1773>>, <<1807, 1807>>, <<1809, 1809>>, <<1840, 1866>>,
    <<1958, 1968>>, <<2027, 2037>>, <<2042, 2042>>, <<2045, 2045>>,
    <<2070, 2093>>, <<2137, 2139>>, <<2184, 2184>>, <<2192, 2193>>,
    <<2200, 2207>>, <<2249, 2306>>, <<2362, 2362>>, <<2364, 2364>>,
    <<2369, 2376>>, <<2381, 2381>>, <<2385, 2391>>, <<2402, 2403>>,
    <<2417, 2417>>, <<2433, 2433>>, <<2492, 2492>>, <<2497, 2500>>,
    <<2509, 2509>>, <<2530, 2531>>, <<2558, 2558>>, <<2561, 2562>>,
    <<2620, 2620>>, <<2625, 2626>>, <<2631, 2632>>, <<2635, 2637>>,
    <<2641, 2641>>, <<2672, 2673>>, <<2677, 2677>>, <<2689, 2690>>,
    <<2748, 2748>>, <<2753, 2757>>, <<2759, 2760>>, <<2765, 2765>>,
    <<2786, 2787>>, <<2810, 2815>>, <<2817, 2817>>, <<2876, 2876>>,
    <<2879, 2879>>, <<2881, 2884>>, <<2893, 2893>>, <<2901, 2902>>,
    <<2914, 2915>>, <<2946, 2946>>, <<3008, 3008>>, <<3021, 3021>>,
    <<3072, 3072>>, <<3076, 3076>>, <<3132, 3132>>, <<3134, 3136>>,
    <<3142, 3144>>, <<3146, 3149>>, <<3157, 3158>>, <<3170, 3171>>,
    <<3201, 3201>>, <<3260, 3260>>, <<3263, 3263>>, <<3270, 3270>>,
    <<3276, 3277>>, <<3298, 3299>>, <<3328, 3329>>, <<3387, 3388>>,
    <<3393, 3396>>, <<3405, 3405>>, <<3426, 3427>>, <<3457, 3457>>,
    <<3530, 3530>>, <<3538, 3540>>, <<3542, 3542>>, <<3633, 3633>>,
    <<3636, 3642>>, <<3654, 3662>>, <<3761, 3761>>, <<3764, 3772>>,
    <<3782, 3782>>, <<3784, 3789>>, <<3864, 3865>>, <<3893, 3893>>,
    <<3895, 3895>>, <<3897, 3897>>, <<3953, 3966>>, <<3968, 3972>>,
    <<3974, 3975>>, <<3981, 3991>>, <<3993, 4028>>, <<4038, 4038>>,
    <<4141, 4144>>, <<4146, 4151>>, <<4153, 4154>>, <<4157, 4158>>,
    <<4184, 4185>>, <<4190, 4192>>, <<4209, 4212>>, <<4226, 4226>>,
    <<4229, 4230>>, <<4237, 4237>>, <<4253, 4253>>, <<4348, 4348>>,
    <<4957, 4959>>, <<5906, 5908>>, <<5938, 5939>>, <<5970, 5971>>,
    <<6002, 6003>>, <<6068, 6069>>, <<6071, 6077>>, <<6086, 6086>>,
    <<6089, 6099>>, <<6103, 6103>>, <<6109, 6109>>, <<6155, 6159>>,
    <<6211, 6211>>, <<6277, 6278>>, <<6313, 6313>>, <<6432, 6434>>,
    <<6439, 6440>>, <<6450, 6450>>, <<6457, 6459>>, <<6679, 6680>>,
    <<6683, 6683>>, <<6742, 6742>>, <<6744, 6750>>, <<6752, 6752>>,
    <<6754, 6754>>, <<6757, 6764>>, <<6771, 6780>>, <<6783, 6783>>,
    <<6823, 6823>>, <<6832, 6862>>, <<6912, 6915>>, <<6964, 6964>>,
    <<6966, 6970>>, <<6972, 6972>>, <<6978, 6978>>, <<7019, 7027>>,
    <<7040, 7041>>, <<7074, 7077>>, <<7080, 7081>>, <<7083, 7085>>,
    <<7142, 7142>>, <<7144, 7145>>, <<7149, 7149>>, <<7151, 7153>>,
    <<7212, 7219>>, <<7222, 7223>>, <<7288, 7293>>, <<7376, 7378>>,
    <<7380, 7392>>, <<7394, 7400>>, <<7405, 7405>>, <<7412, 7412>>,
    <<7416, 7417>>, <<7468, 7530>>, <<7544, 7544>>, <<7579, 7679>>,
    <<8125, 8125>>, <<8127, 8129>>, <<8141, 8143>>, <<8157, 8159>>,
    <<8173, 8175>>, <<8189, 8190>>, <<8203, 8207>>, <<8216, 8217>>,
    <<8228, 8228>>, <<8231, 8231>>, <<8234, 8238>>, <<8288, 8292>>,
    <<8294, 8303>>, <<8305, 8305>>, <<8319, 8319>>, <<8336, 8348>>,
    <<8400, 8432>>, <<11388, 11389>>, <<11503, 11505>>, <<11631, 11631>>,
    <<11647, 11647>>, <<11744, 11775>>, <<11823, 11823>>, <<12293, 12293>>,
    <<12330, 12333>>, <<12337, 12341>>, <<12347, 12347>>, <<12441, 12446>>,
    <<12540, 12542>>, <<40981, 40981>>, <<42232, 42237>>, <<42508, 42508>>,
    <<42607, 42610>>, <<42612, 42621>>, <<42623, 42623>>, <<42652, 42655>>,
    <<42736, 42737>>, <<42752, 42785>>, <<42864, 42864>>, <<42888, 42890>>,
    <<42994, 42996>>, <<43000, 43001>>, <<43010, 43010>>, <<43014, 43014>>,
    <<43019, 43019>>, <<43045, 43046>>, <<43052, 43052>>, <<43204, 43205>>,
    <<43232, 43249>>, <<43263, 43263>>, <<43302, 43309>>, <<43335, 43345>>,
    <<43392, 43394>>, <<43443, 43443>>, <<43446, 43449>>, <<43452, 43453>>,
    <<43471, 43471>>, <<43493, 43494>>, <<43561, 43566>>, <<43569, 43570>>,
    <<43573, 43574>>, <<43587, 43587>>, <<43596, 43596>>, <<43632, 43632>>,
    <<43644, 43644>>, <<43696, 43696>>, <<43698, 43700>>, <<43703, 43704>>,
    <<43710, 43711>>, <<43713, 43713>>, <<43741, 43741>>, <<43756, 43757>>,
    <<43763, 43764>>, <<43766, 43766>>, <<43867, 43871>>, <<43881, 43883>>,
    <<44005, 44005>>, <<44008, 44008>>, <<44013, 44013>>, <<64286, 64286>>,
    <<64434, 64450>>, <<65024, 65039>>, <<65043, 65043>>, <<65056, 65071>>,
    <<65106, 65106>>, <<65109, 65109>>, <<65279, 65279>>, <<65287, 65287>>,
    <<65294, 65294>>, <<65306, 65306>>, <<65342, 65342>>, <<65344, 65344>>,
    <<65392, 65392>>, <<65438, 65439>>, <<65507, 65507>>, <<65529, 65531>>,
    <<66045, 66045>>, <<66272, 66272>>, <<66422, 66426>>, <<67456, 67461>>,
    <<67463, 67504>>, <<67506, 67514>>, <<68097, 68099>>, <<68101, 68102>>,
    <<68108, 68111>>, <<68152, 68154>>, <<68159, 68159>>, <<68325, 68326>>,
    <<68900, 68903>>, <<69291, 69292>>, <<69446, 69456>>, <<69506, 69509>>,
    <<69633, 69633>>, <<69688, 69702>>, <<69744, 69744>>, <<69747, 69748>>,
    <<69759, 69761>>, <<69811, 69814>>, <<69817, 69818>>, <<69821, 69821>>,
    <<69826, 69826>>, <<69837, 69837>>, <<69888, 69890>>, <<69927, 69931>>,
    <<69933, 69940>>, <<70003, 70003>>, <<70016, 70017>>, <<70070, 70078>>,
    <<70089, 70092>>, <<70095, 70095>>, <<70191, 70193>>, <<70196, 70196>>,
    <<70198, 70199>>, <<70206, 70206>>, <<70367, 70367>>, <<70371, 70378>>,
    <<70400, 70401>>, <<70459, 70460>>, <<70464, 70464>>, <<70502, 70508>>,
    <<70512, 70516>>, <<70712, 70719>>, <<70722, 70724>>, <<70726, 70726>>,
    <<70750, 70750>>, <<70835, 70840>>, <<70842, 70842>>, <<70847, 70848>>,
    <<70850, 70851>>, <<71090, 71093>>, <<71100, 71101>>, <<71103, 71104>>,
    <<71132, 71133>>, <<71219, 71226>>, <<71229, 71229>>, <<71231, 71232>>,
    <<71339, 71339>>, <<71341, 71341>>, <<71344, 71349>>, <<71351, 71351>>,
    <<71453, 71453>>, <<71455, 71455>>, <<71458, 71461>>, <<71463, 71467>>, <<71727, 71735>>,
    <<71737, 71738>>, <<71995, 71996>>, <<71998, 71998>>, <<72003, 72003>>,
    <<72148, 72151>>, <<72154, 72155>>, <<72160, 72160>>, <<72193, 72202>>,
    <<72243, 72248>>, <<72251, 72254>>, <<72263, 72263>>, <<72273, 72278>>,
    <<72281, 72283>>, <<72330, 72342>>, <<72344, 72345>>, <<72752, 72758>>,
    <<72760, 72765>>, <<72767, 72767>>, <<72850, 72871>>, <<72874, 72880>>,
    <<72882, 72883>>, <<72885, 72886>>, <<73009, 73014>>, <<73018, 73018>>,
    <<73020, 73021>>, <<73023, 73029>>, <<73031, 73031>>, <<73104, 73105>>,
    <<73109, 73109>>, <<73111, 73111>>, <<73459, 73460>>, <<78896, 78904>>,
    <<92912, 92916>>, <<92976, 92982>>, <<92992, 92995>>, <<94031, 94031>>,
    <<94095, 94111>>, <<94176, 94177>>, <<94179, 94180>>, <<110576, 110579>>,
    <<110581, 110587>>, <<110589, 110590>>, <<113821, 113822>>,
    <<113824, 113827>>, <<118528, 118573>>, <<118576, 118598>>,
    <<119143, 119145>>, <<119155, 119170>>, <<119173, 119179>>,
    <<119210, 119213>>, <<119362, 119364>>, <<121344, 121398>>,
    <<121403, 121452>>, <<121461, 121461>>, <<121476, 121476>>,
    <<121499, 121503>>, <<121505, 121519>>, <<122880, 122886>>,
    <<122888, 122904>>, <<122907, 122913>>, <<122915, 122916>>,
    <<122918, 122922>>, <<123184, 123197>>, <<123566, 123566>>,
    <<123628, 123631>>, <<125136, 125142>>, <<125252, 125259>>,
    <<127995, 127999>>, <<917505, 917505>>, <<917536, 917631>>,
    <<917760, 917999>>,
    <<2199, 2199>>, <<3790, 3790>>, <<6863, 6877>>, <<6880, 6891>>,
    <<42993, 42993>>, <<68942, 68942>>, <<68969, 68973>>, <<68975, 68975>>,
    <<69370, 69375>>, <<70209, 70209>>, <<70587, 70592>>, <<70606, 70606>>,
    <<70608, 70608>>, <<70610, 70610>>, <<70625, 70626>>, <<73472, 73473>>,
    <<73526, 73530>>, <<73536, 73536>>, <<73538, 73538>>, <<73562, 73562>>,
    <<78905, 78912>>, <<78919, 78933>>, <<90398, 90409>>, <<90413, 90415>>,
    <<93504, 93506>>, <<93547, 93548>>, <<122928, 122989>>, <<123023, 123023>>,
    <<124139, 124143>>, <<124398, 124399>>, <<69317, 69317>>,
    <<72544, 72544>>, <<72546, 72548>>, <<72550, 72550>>, <<73177, 73177>>, <<94194, 94195>>,
    <<124643, 124643>>, <<124646, 124646>>, <<124654, 124655>>,
    <<124661, 124661>>, <<124671, 124671>>
  >>

\* Cased code points that are not case-ignorable, as <<first, last>>.
CasedRanges ==
  <<
    <<65, 90>>, <<97, 122>>, <<170, 170>>, <<181, 181>>, <<186, 186>>,
    <<192, 214>>, <<216, 246>>, <<248, 442>>, <<444, 447>>, <<452, 659>>,
    <<662, 687>>, <<880, 883>>, <<886, 887>>, <<891, 893>>, <<895, 895>>,
    <<902, 902>>, <<904, 906>>, <<908, 908>>, <<910, 929>>, <<931, 1013>>,
    <<1015, 1153>>, <<1162, 1327>>, <<1329, 1366>>, <<1376, 1416>>,
    <<4256, 4293>>, <<4295, 4295>>, <<4301, 4301>>, <<4304, 4346>>,
    <<4349, 4351>>, <<5024, 5109>>, <<5112, 5117>>, <<7296, 7304>>,
    <<7312, 7354>>, <<7357, 7359>>, <<7424, 7467>>, <<7531, 7543>>,
    <<7545, 7578>>, <<7680, 7957>>, <<7960, 7965>>, <<7968, 8005>>,
    <<8008, 8013>>, <<8016, 8023>>, <<8025, 8025>>, <<8027, 8027>>,
    <<8029, 8029>>, <<8031, 8061>>, <<8064, 8116>>, <<8118, 8124>>,
    <<8126, 8126>>, <<8130, 8132>>, <<8134, 8140>>, <<8144, 8147>>,
    <<8150, 8155>>, <<8160, 8172>>, <<8178, 8180>>, <<8182, 8188>>,
    <<8450, 8450>>, <<8455, 8455>>, <<8458, 8467>>, <<8469, 8469>>,
    <<8473, 8477>>, <<8484, 8484>>, <<8486, 8486>>, <<8488, 8488>>,
    <<8490, 8493>>, <<8495, 8500>>, <<8505, 8505>>, <<8508, 8511>>,
    <<8517, 8521>>, <<8526, 8526>>, <<8544, 8575>>, <<8579, 8580>>,
    <<9398, 9449>>, <<11264, 11387>>, <<11390, 11492>>, <<11499, 11502>>,
    <<11506, 11507>>, <<11520, 11557>>, <<11559, 11559>>, <<11565, 11565>>,
    <<42560, 42605>>, <<42624, 42651>>, <<42786, 42863>>, <<42865, 42887>>,
    <<42891, 42894>>, <<42896, 42954>>, <<42960, 42961>>, <<42963, 42963>>,
    <<42965, 42969>>, <<42997, 42998>>, <<43002, 43002>>, <<43824, 43866>>,
    <<43872, 43880>>, <<43888, 43967>>, <<64256, 64262>>, <<64275, 64279>>,
    <<65313, 65338>>, <<65345, 65370>>, <<66560, 66639>>, <<66736, 66771>>,
    <<66776, 66811>>, <<66928, 66938>>, <<66940, 66954>>, <<66956, 66962>>,
    <<66964, 66965>>, <<66967, 66977>>, <<66979, 66993>>, <<66995, 67001>>,
    <<67003, 67004>>, <<68736, 68786>>, <<68800, 68850>>, <<71840, 71903>>,
    <<93760, 93823>>, <<119808, 119892>>, <<119894, 119964>>,
    <<119966, 119967>>, <<119970, 119970>>, <<119973, 119974>>,
    <<119977, 119980>>, <<119982, 119993>>, <<119995, 119995>>,
    <<119997, 120003>>, <<120005, 120069>>, <<120071, 120074>>,
    <<120077, 120084>>, <<120086, 120092>>, <<120094, 120121>>,
    <<120123, 120126>>, <<120128, 120132>>, <<120134, 120134>>,
    <<120138, 120144>>, <<120146, 120485>>, <<120488, 120512>>,
    <<120514, 120538>>, <<120540, 120570>>, <<120572, 120596>>,
    <<120598, 120628>>, <<120630, 120654>>, <<120656, 120686>>,
    <<120688, 120712>>, <<120714, 120744>>, <<120746, 120770>>,
    <<120772, 120779>>, <<122624, 122633>>, <<122635, 122654>>,
    <<125184, 125251>>, <<127280, 127305>>, <<127312, 127337>>,
    <<127344, 127369>>,
    <<7305, 7306>>, <<42955, 42959>>, <<42962, 42962>>, <<42964, 42964>>,
    <<42970, 42972>>, <<68944, 68965>>, <<68976, 68997>>, <<93856, 93880>>,
    <<93883, 93907>>, <<122661, 122666>>
  >>

InCaseRange(r, c) == c >= r[1] /\ c <= r[2] /\ (c - r[1]) % r[3] = 0

MapByRanges(table, c) ==
    IF \E k \in 1..Len(table) : InCaseRange(table[k], c)
    THEN c + table[CHOOSE k \in 1..Len(table) : InCaseRange(table[k], c)][4]
    ELSE c

MapCodePoint(ranges, special, c) ==
    IF \E k \in 1..Len(special) : special[k][1] = c
    THEN special[CHOOSE k \in 1..Len(special) : special[k][1] = c][2]
    ELSE <<MapByRanges(ranges, c)>>

\* The lower case and the upper case of one code point: a string of one or
\* more code points.
LowerCodePoint(c) ==
    IF c < 128 THEN <<IF c >= 65 /\ c <= 90 THEN c + 32 ELSE c>>
    ELSE MapCodePoint(LowerCaseRanges, LowerCaseSpecial, c)
UpperCodePoint(c) ==
    IF c < 128 THEN <<IF c >= 97 /\ c <= 122 THEN c - 32 ELSE c>>
    ELSE MapCodePoint(UpperCaseRanges, UpperCaseSpecial, c)

InRanges(table, c) == \E k \in 1..Len(table) : c >= table[k][1] /\ c <= table[k][2]
IsCaseIgnorable(c) == InRanges(CaseIgnorableRanges, c)
IsCased(c) == InRanges(CasedRanges, c)

\* A cased letter stands at j with only case-ignorable code points between j
\* and i.
CasedLetterAt(str, i, j) ==
    /\ IsCased(str[j])
    /\ \A k \in 1..Len(str) : (k > i /\ k < j) \/ (k > j /\ k < i) => IsCaseIgnorable(str[k])

\* Final_Sigma: a capital sigma that follows a cased letter and is not
\* followed by one becomes the final small sigma.
CAPITAL_SIGMA == 931
FINAL_SIGMA == 962
IsFinalSigma(str, i) ==
    /\ \E j \in 1..(i - 1) : CasedLetterAt(str, i, j)
    /\ ~\E j \in (i + 1)..Len(str) : CasedLetterAt(str, i, j)

RECURSIVE Concat(_)
Concat(strs) == IF strs = <<>> THEN <<>> ELSE Head(strs) \o Concat(Tail(strs))

toLowerCase(str) ==
    Concat([i \in 1..Len(str) |->
               IF str[i] = CAPITAL_SIGMA /\ IsFinalSigma(str, i) THEN <<FINAL_SIGMA>>
               ELSE LowerCodePoint(str[i])])

\* String.prototype.trim: WhiteSpace and LineTerminator code points removed at
\* both ends (tab, LF, VT, FF, CR, the space separators of Unicode, LS, PS and
\* the byte order mark).
IsWhiteSpace(c) ==
    \/ c \in {9, 10, 11, 12, 13, 32, 160, 5760, 8232, 8233, 8239, 8287, 12288, 65279}
    \/ c >= 8192 /\ c <= 8202
RECURSIVE TrimStart(_)
TrimStart(str) ==
    IF str # <<>> /\ IsWhiteSpace(Head(str)) THEN TrimStart(Tail(str)) ELSE str
RECURSIVE TrimEnd(_)
TrimEnd(str) ==
    IF str # <<>> /\ IsWhiteSpace(str[Len(str)])
    THEN TrimEnd(SubSeq(str, 1, Len(str) - 1)) ELSE str
trim(str) == TrimEnd(TrimStart(str))

MAX_CODE_UNIT == 65535

\* The UTF-16 code units of a code point: itself, or a high and a low
\* surrogate for a code point above U+FFFF.  A string never holds a high
\* surrogate followed by a low one as two elements: the two are one code point.
HIGH_SURROGATE_MIN == 55296
LOW_SURROGATE_MIN == 56320
CodeUnitsOf(c) ==
    IF c > MAX_CODE_UNIT
    THEN <<HIGH_SURROGATE_MIN + ((c - (MAX_CODE_UNIT + 1)) \div 1024),
           LOW_SURROGATE_MIN + ((c - (MAX_CODE_UNIT + 1)) % 1024)>>
    ELSE <<c>>
ToCodeUnits(str) == Concat([i \in 1..Len(str) |-> CodeUnitsOf(str[i])])

\* String.prototype.includes: the code units of part occur, in a row, among
\* the code units of str.
includes(str, part) ==
    LET units == ToCodeUnits(str)
        sought == ToCodeUnits(part)
    IN \E i \in 0..(Len(units) - Len(sought)) :
           SubSeq(units, i + 1, i + Len(sought)) = sought

startsWith(str, prefix) ==
    Len(str) >= Len(prefix) /\ SubSeq(str, 1, Len(prefix)) = prefix

\* String.prototype.split on one separator code point: the list of tokens.
RECURSIVE SplitFrom(_, _, _)
SplitFrom(str, sep, token) ==
    IF str = <<>> THEN <<token>>
    ELSE IF Head(str) = sep THEN <<token>> \o SplitFrom(Tail(str), sep, <<>>)
    ELSE SplitFrom(Tail(str), sep, Append(token, Head(str)))
split(str, sep) == SplitFrom(str, sep, <<>>)

\* Array.prototype.join with one separator code point.
RECURSIVE join(_, _)
join(tokens, sep) ==
    IF tokens = <<>> THEN <<>>
    ELSE IF Len(tokens) = 1 THEN tokens[1]
    ELSE tokens[1] \o <<sep>> \o join(Tail(tokens), sep)

SeqContains(seq, x) == \E i \in 1..Len(seq) : seq[i] = x

-----------------------------------------------------------------------------
(***************************************************************************)
(* utils/iconUtils: isEmoji                                                *)
(***************************************************************************)

\* The ranges of emojiRegex, in the order of the alternatives.
EmojiRanges ==
    <<<<128512, 128591>>,   \* 1F600-1F64F
      <<127744, 128511>>,   \* 1F300-1F5FF
      <<128640, 128767>>,   \* 1F680-1F6FF
      <<127456, 127487>>,   \* 1F1E0-1F1FF
      <<9728, 9983>>,       \* 2600-26FF
      <<9984, 10175>>,      \* 2700-27BF
      <<129280, 129535>>,   \* 1F900-1F9FF
      <<127000, 127600>>,   \* 1F018-1F270
      <<9100, 9300>>,       \* 238C-2454
      <<8400, 8447>>>>      \* 20D0-20FF

\* A plausible slip: the last code point of a range is left out.
InEmojiRange_UpperEndOpen(c) ==
    \E r \in 1..Len(EmojiRanges) : c >= EmojiRanges[r][1] /\ c < EmojiRanges[r][2]

InEmojiRange(c) ==
    \E r \in 1..Len(EmojiRanges) : c >= EmojiRanges[r][1] /\ c <= EmojiRanges[r][2]

isEmoji(icon) ==
    IF icon = <<>> THEN FALSE
    ELSE \E i \in 1..Len(icon) : InEmojiRange(icon[i])

\* JavaScript values as an untyped caller can hand them to isEmoji: a string
\* (its code points in str), a number (num), undefined, null or an object.
StringValue(str) == [type |-> "string", str |-> str, num |-> 0]
NumberValue(num) == [type |-> "number", str |-> <<>>, num |-> num]
OtherValue(type) == [type |-> type, str |-> <<>>, num |-> 0]
Falsy(v) ==
    \/ v.type \in {"undefined", "null"}
    \/ v.type = "string" /\ v.str = <<>>
    \/ v.type = "number" /\ v.num = 0
typeof(v) == IF v.type = "null" THEN "object" ELSE v.type

\* isEmoji with its guard on the type of the argument.
isEmojiOfValue(v) ==
    IF Falsy(v) \/ typeof(v) # "string" THEN FALSE ELSE isEmoji(v.str)

\* The code points the classifier is called with: the ends of every range and
\* their neighbours, the letter a, the artist palette.
BoundaryCodePoints ==
    UNION {{EmojiRanges[r][1] - 1, EmojiRanges[r][1], EmojiRanges[r][2],
            EmojiRanges[r][2] + 1} : r \in 1..Len(EmojiRanges)} \cup {97, 127912}
MaxEmojiLen == 2
NonStrings ==
    {NumberValue(0), NumberValue(127912), OtherValue("undefined"), OtherValue("null"),
     OtherValue("object")}
NotClassified == [done |-> FALSE, value |-> FALSE]

ClassifierIdle ==
    /\ classifierInput = OtherValue("undefined")
    /\ classifierResult = NotClassified

Classify ==
    /\ ~classifierResult.done
    /\ classifierResult' = [done |-> TRUE, value |-> isEmojiOfValue(classifierInput)]
    /\ UNCHANGED <<classifierInput, fileItemVars, resolverVars, sortVars, modalVars>>

-----------------------------------------------------------------------------
(***************************************************************************)
(* modals/IconPickerModal: pure parts                                      *)
(***************************************************************************)

gridColumns == 5
MAX_RESULTS == 50

LucidePrefix == Str("lucide-")

\* word.charAt(0).toUpperCase() + word.slice(1).  charAt(0) is the first
\* UTF-16 code unit: of a code point above U+FFFF it is a lone surrogate,
\* which toUpperCase leaves as it is.
Capitalize(word) ==
    IF word = <<>> THEN <<>>
    ELSE IF Head(word) > MAX_CODE_UNIT THEN word
    ELSE UpperCodePoint(Head(word)) \o Tail(word)

getIconDisplayName(iconId) ==
    LET name == IF startsWith(iconId, LucidePrefix)
                THEN SubSeq(iconId, Len(LucidePrefix) + 1, Len(iconId))
                ELSE iconId
        words == split(name, HYPHEN)
    IN join([i \in 1..Len(words) |-> Capitalize(words[i])], SPACE)

\* A plausible slip: only the raw identifier is searched.
MatchesSearch_IdOnly(iconId, searchTerm) ==
    includes(toLowerCase(iconId), searchTerm)

\* The filter of updateResults for a non-empty search term.
MatchesSearch(iconId, searchTerm) ==
    \/ includes(toLowerCase(getIconDisplayName(iconId)), searchTerm)
    \/ includes(toLowerCase(iconId), searchTerm)

Take(seq, n) == SubSeq(seq, 1, IF Len(seq) < n THEN Len(seq) ELSE n)

\* What updateResults puts into the results container on the icons tab:
\* the grid items in order, the empty-state message and the overflow count.
NoMessage == "none"

\* strings.modals.iconPicker of the two locales, as code points: the texts of
\* the two empty-state messages.
Locales == {"fr", "zh"}
iconPickerStrings(locale) ==
    IF locale = "fr"
    THEN [emptyStateSearch |->
              <<67, 111, 109, 109, 101, 110, 99, 101, 122, 32, 224, 32, 116, 97, 112,
                101, 114, 32, 112, 111, 117, 114, 32, 114, 101, 99, 104, 101, 114, 99,
                104, 101, 114, 32, 100, 101, 115, 32, 105, 99, 244, 110, 101, 115>>,
          emptyStateNoResults |->
              <<65, 117, 99, 117, 110, 101, 32, 105, 99, 244, 110, 101, 32, 116, 114,
                111, 117, 118, 233, 101>>]
    ELSE [emptyStateSearch |->
              <<24320, 22987, 36755, 20837, 20197, 25628, 32034, 22270, 26631>>,
          emptyStateNoResults |-> <<26410, 25214, 21040, 22270, 26631>>]

\* The text a message element shows in a locale; nothing when there is none.
MessageText(locale, message) ==
    IF message = NoMessage THEN <<>> ELSE iconPickerStrings(locale)[message]

\* A plausible slip: with no recently used icon the whole catalog is shown.
IconsTabContent_FullSetFallback(inputValue, icons, recentIcons) ==
    LET searchTerm == trim(toLowerCase(inputValue))
        matchingIcons == SelectSeq(icons, LAMBDA id : MatchesSearch(id, searchTerm))
    IN IF searchTerm = <<>>
       THEN IF Len(recentIcons) > 0
            THEN [grid |-> recentIcons, header |-> TRUE,
                  message |-> NoMessage, more |-> 0]
            ELSE [grid |-> Take(icons, MAX_RESULTS), header |-> FALSE,
                  message |-> NoMessage, more |-> 0]
       ELSE IF Len(matchingIcons) > 0
            THEN [grid |-> Take(matchingIcons, MAX_RESULTS), header |-> FALSE,
                  message |-> NoMessage,
                  more |-> IF Len(matchingIcons) > MAX_RESULTS
                           THEN Len(matchingIcons) ELSE 0]
            ELSE [grid |-> <<>>, header |-> FALSE,
                  message |-> "emptyStateNoResults", more |-> 0]

\* A plausible slip: the overflow message counts the icons that are not shown.
IconsTabContent_CountsHidden(inputValue, icons, recentIcons) ==
    LET searchTerm == trim(toLowerCase(inputValue))
        matchingIcons == SelectSeq(icons, LAMBDA id : MatchesSearch(id, searchTerm))
    IN IF searchTerm = <<>>
       THEN IF Len(recentIcons) > 0
            THEN [grid |-> recentIcons, header |-> TRUE,
                  message |-> NoMessage, more |-> 0]
            ELSE [grid |-> <<>>, header |-> FALSE,
                  message |-> "emptyStateSearch", more |-> 0]
       ELSE IF Len(matchingIcons) > 0
            THEN [grid |-> Take(matchingIcons, MAX_RESULTS), header |-> FALSE,
                  message |-> NoMessage,
                  more |-> IF Len(matchingIcons) > MAX_RESULTS
                           THEN Len(matchingIcons) - MAX_RESULTS ELSE 0]
            ELSE [grid |-> <<>>, header |-> FALSE,
                  message |-> "emptyStateNoResults", more |-> 0]

IconsTabContent(inputValue, icons, recentIcons) ==
    LET searchTerm == trim(toLowerCase(inputValue))
        matchingIcons == SelectSeq(icons, LAMBDA id : MatchesSearch(id, searchTerm))
    IN IF searchTerm = <<>>
       THEN IF Len(recentIcons) > 0
            THEN [grid |-> recentIcons, header |-> TRUE,
                  message |-> NoMessage, more |-> 0]
            ELSE [grid |-> <<>>, header |-> FALSE,
                  message |-> "emptyStateSearch", more |-> 0]
       ELSE IF Len(matchingIcons) > 0
            THEN [grid |-> Take(matchingIcons, MAX_RESULTS), header |-> FALSE,
                  message |-> NoMessage,
                  more |-> IF Len(matchingIcons) > MAX_RESULTS
                           THEN Len(matchingIcons) ELSE 0]
            ELSE [grid |-> <<>>, header |-> FALSE,
                  message |-> "emptyStateNoResults", more |-> 0]

\* A plausible slip: the recently used icons are not checked against the catalog.
ConstructRecentIcons_NoCatalogTest(supplied, icons) ==
    SelectSeq(supplied, LAMBDA item : ~isEmoji(item))

\* The constructor's split of the supplied recently-used list.
ConstructRecentIcons(supplied, icons) ==
    SelectSeq(supplied, LAMBDA item : ~isEmoji(item) /\ SeqContains(icons, item))
\* A plausible slip: the supplied list is offered on the emojis tab as it is.
ConstructRecentEmojis_NotFiltered(supplied) == supplied

ConstructRecentEmojis(supplied) ==
    SelectSeq(supplied, LAMBDA item : isEmoji(item))

-----------------------------------------------------------------------------
(***************************************************************************)
(* modals/IconPickerModal and components/EmojiPicker: state and handlers   *)
(***************************************************************************)

MaxSelections == 2

\* document.activeElement: the search input, grid cell number index (from 0),
\* the emoji input, or an element outside the modal's controls.
\* The event a step handles, as the observer lastEvent records it.
Event(name) == [name |-> name, key |-> "", shift |-> FALSE]
KeyEvent(name, key, shift) == [name |-> name, key |-> key, shift |-> shift]

FocusSearch == [kind |-> "search", index |-> -1]
FocusEmoji == [kind |-> "emoji", index |-> -1]
FocusBody == [kind |-> "body", index |-> -1]
\* The buttons of the EmojiPicker: a mouse click on a button focuses it
\* before its click handler runs.
FocusSubmitButton == [kind |-> "submit", index |-> -1]
FocusRecentEmoji(i) == [kind |-> "recent", index |-> i]
FocusCell(i) == [kind |-> "cell", index |-> i]

\* A selectIcon call whose awaited promise has settled resumes before any other
\* task runs: no event handler or timer runs while one is due to resume.
ResumeDue(sel) == sel.pc = "await" /\ sel.promise # "pending"
NoMicrotask == \A s \in 1..Len(selections) : ~ResumeDue(selections[s])

\* setTimeout returns an id that no pending timeout has.
NewTimerId(pending) ==
    CHOOSE id \in 1..(Cardinality(pending) + 1) : id \notin pending

\* clearTimeout
clearTimeout(pending, id) == pending \ {id}

\* createRoot(container).render(<EmojiPicker/>) returns before React has
\* rendered anything.  Called while a discrete event (a click, a key) is being
\* handled, React renders, commits and runs the mount effect in a microtask
\* of the same task; called from a timer callback, React renders in a later
\* task and runs the mount effect in a task later still.
NotRendered == "none"
RenderScheduled == "scheduled"
EffectPending == "rendered"
Mounted == "mounted"
RootRender(tab, discrete) ==
    IF tab # "emojis" THEN NotRendered
    ELSE IF discrete THEN Mounted
    ELSE RenderScheduled

\* The EmojiPicker's elements are in the document.
EmojiPickerInDocument == emojiPicker \in {EffectPending, Mounted}

\* A plausible slip: the tracked focus index is not reset on a re-render.
updateResults_NoFocusReset(tab, inputValue, discrete) ==
    LET content == IconsTabContent(inputValue, allIcons, recentlyUsedIcons)
    IN /\ focusedIndex' = focusedIndex
       /\ emojiInputValue' = <<>>
       /\ emojiPicker' = RootRender(tab, discrete)
       /\ IF tab = "emojis"
          THEN /\ reactRoot' = 1
               /\ gridItems' = <<>>
               /\ emptyMessage' = NoMessage
               /\ moreMessage' = 0
          ELSE /\ reactRoot' = 0
               /\ gridItems' = content.grid
               /\ emptyMessage' = content.message
               /\ moreMessage' = content.more

\* updateResults with the active tab and the search input's value as they are
\* when it runs: what it leaves in resultsContainer, focusedIndex and reactRoot.
updateResults(tab, inputValue, discrete) ==
    LET content == IconsTabContent(inputValue, allIcons, recentlyUsedIcons)
    IN /\ focusedIndex' = -1
       /\ emojiInputValue' = <<>>
       /\ emojiPicker' = RootRender(tab, discrete)
       /\ IF tab = "emojis"
          THEN /\ reactRoot' = 1
               /\ gridItems' = <<>>
               /\ emptyMessage' = NoMessage
               /\ moreMessage' = 0
          ELSE /\ reactRoot' = 0
               /\ gridItems' = content.grid
               /\ emptyMessage' = content.message
               /\ moreMessage' = content.more

\* The focused element when the task that called updateResults ends: the
\* emoji input focuses itself when it is mounted in the displayed modal, which
\* is within the task for a discrete event only; an element that was removed
\* from resultsContainer loses the focus.
FocusAfterUpdate(tab, focus, displayed, discrete) ==
    IF tab = "emojis" /\ displayed /\ discrete THEN FocusEmoji
    ELSE IF focus.kind \in {"cell", "emoji", "submit", "recent"} THEN FocusBody
    ELSE focus

\* A plausible slip: the debounce timer is forgotten, not cleared.
onClose_TimerNotCleared ==
    /\ isOpen' = FALSE
    /\ pendingTimers' = pendingTimers
    /\ searchDebounceTimer' = 0
    /\ burstInputs' = 0
    /\ reactRoot' = 0
    /\ emojiPicker' = NotRendered
    /\ emojiInputValue' = <<>>
    /\ IF searchInputKeydownHandler
       THEN /\ searchListeners' = IF searchListeners > 0 THEN searchListeners - 1 ELSE 0
            /\ searchInputKeydownHandler' = FALSE
       ELSE UNCHANGED <<searchListeners, searchInputKeydownHandler>>
    /\ IF contentElKeydownHandler
       THEN /\ contentListeners' = IF contentListeners > 0 THEN contentListeners - 1 ELSE 0
            /\ contentElKeydownHandler' = FALSE
       ELSE UNCHANGED <<contentListeners, contentElKeydownHandler>>
    /\ domFocus' = FocusBody

\* onClose, also run by close(): the timer, the React root, the listeners and
\* the content of contentEl.  resultsContainer and the search input are
\* detached as they are; focusedIndex and activeTab are not reset.
onClose ==
    /\ isOpen' = FALSE
    /\ pendingTimers' = IF searchDebounceTimer # 0
                        THEN clearTimeout(pendingTimers, searchDebounceTimer)
                        ELSE pendingTimers
    /\ searchDebounceTimer' = 0
    /\ burstInputs' = 0
    /\ reactRoot' = 0
    /\ emojiPicker' = NotRendered
    /\ emojiInputValue' = <<>>
    /\ IF searchInputKeydownHandler
       THEN /\ searchListeners' = IF searchListeners > 0 THEN searchListeners - 1 ELSE 0
            /\ searchInputKeydownHandler' = FALSE
       ELSE UNCHANGED <<searchListeners, searchInputKeydownHandler>>
    /\ IF contentElKeydownHandler
       THEN /\ contentListeners' = IF contentListeners > 0 THEN contentListeners - 1 ELSE 0
            /\ contentElKeydownHandler' = FALSE
       ELSE UNCHANGED <<contentListeners, contentElKeydownHandler>>
    /\ domFocus' = FocusBody

\* A plausible slip: the tag entry point is used for folders as well.
selectIcon_AlwaysTag(iconId) ==
    /\ Len(selections) < selectionBudget
    /\ calls' = Append(calls,
                       [fn |-> "setTagIcon", path |-> itemPath, iconId |-> iconId])
    /\ selections' = Append(selections,
                            [iconId |-> iconId, promise |-> "pending", pc |-> "await",
                             chosen |-> FALSE, closed |-> FALSE, reclosed |-> FALSE])

\* selectIcon up to its await: the assignment call is made and is in flight.
selectIcon(iconId) ==
    /\ Len(selections) < selectionBudget
    /\ calls' = Append(calls,
                       [fn |-> IF itemType = ItemTypeTAG THEN "setTagIcon"
                               ELSE "setFolderIcon",
                        path |-> itemPath, iconId |-> iconId])
    /\ selections' = Append(selections,
                            [iconId |-> iconId, promise |-> "pending", pc |-> "await",
                             chosen |-> FALSE, closed |-> FALSE, reclosed |-> FALSE])

\* ---- opening and closing ----

\* Modal.open() -> onOpen
Open ==
    /\ lastEvent' = Event("open")
    /\ ~isOpen
    /\ NoMicrotask
    /\ isOpen' = TRUE
    /\ searchValue' = <<>>
    /\ searchVisible' = TRUE
    /\ searchInputKeydownHandler' = TRUE
    /\ contentElKeydownHandler' = TRUE
    /\ searchListeners' = 1
    /\ contentListeners' = contentListeners + 1
    /\ updateResults(activeTab, <<>>, TRUE)
    /\ domFocus' = FocusAfterUpdate(activeTab, FocusSearch, TRUE, TRUE)
    /\ UNCHANGED <<restVars, timerVars, asyncVars, activeTab>>

\* The user dismisses the modal: Modal.close() -> onClose
Close ==
    /\ lastEvent' = Event("close")
    /\ isOpen
    /\ NoMicrotask
    /\ onClose
    /\ UNCHANGED <<restVars, asyncVars, refiltersSinceInput, gridItems, emptyMessage,
                   moreMessage, focusedIndex, activeTab, searchValue, searchVisible>>

\* ---- tabs ----

\* A plausible slip: the search text is kept and the results are those of the
\* kept text.
switchTab_SearchKept(tab) ==
    /\ lastEvent' = KeyEvent("switchTab", tab, FALSE)
    /\ isOpen
    /\ NoMicrotask
    /\ activeTab' = tab
    /\ searchVisible' = (tab = "icons")
    /\ searchValue' = searchValue
    /\ updateResults(tab, searchValue, TRUE)
    /\ domFocus' = IF tab = "icons" THEN FocusSearch
                   ELSE FocusAfterUpdate(tab, domFocus, TRUE, TRUE)
    /\ UNCHANGED <<restVars, handlerVars, timerVars, asyncVars, isOpen>>

\* A click on a tab: switchTab(tab).  The event records the tab clicked.
switchTab(tab) ==
    /\ lastEvent' = KeyEvent("switchTab", tab, FALSE)
    /\ isOpen
    /\ NoMicrotask
    /\ activeTab' = tab
    /\ searchVisible' = (tab = "icons")
    /\ searchValue' = <<>>
    /\ updateResults(tab, <<>>, TRUE)
    /\ domFocus' = IF tab = "icons" THEN FocusSearch
                   ELSE FocusAfterUpdate(tab, domFocus, TRUE, TRUE)
    /\ UNCHANGED <<restVars, handlerVars, timerVars, asyncVars, isOpen>>

\* ---- search input and its debounce timer ----

\* The input events of the burst, this one included: an input event that
\* finds no timer pending begins a burst.
CountedInput ==
    LET n == IF pendingTimers = {} THEN 1 ELSE burstInputs + 1
    IN IF n < burstBudget THEN n ELSE burstBudget

\* A plausible slip: the pending timer is not cleared before a new one is set.
InputListener_NoClear(text) ==
    /\ searchValue' = text
    /\ pendingTimers' = pendingTimers \cup {NewTimerId(pendingTimers)}
    /\ searchDebounceTimer' = NewTimerId(pendingTimers)
    /\ refiltersSinceInput' = 0
    /\ burstInputs' = CountedInput

\* The 'input' listener of the search input, on the value the user has typed.
InputListener(text) ==
    LET cleared == IF searchDebounceTimer # 0
                   THEN clearTimeout(pendingTimers, searchDebounceTimer)
                   ELSE pendingTimers
    IN /\ searchValue' = text
       /\ pendingTimers' = cleared \cup {NewTimerId(cleared)}
       /\ searchDebounceTimer' = NewTimerId(cleared)
       /\ refiltersSinceInput' = 0
       /\ burstInputs' = CountedInput

\* An input event on the search input: the listener runs on every one, also on
\* one that leaves the value as it is (the selected text replaced by the same
\* text).
TypeSearch(text) ==
    /\ lastEvent' = Event("input")
    /\ isOpen
    /\ NoMicrotask
    /\ searchVisible
    /\ domFocus = FocusSearch
    /\ InputListener(text)
    /\ UNCHANGED <<restVars, handlerVars, resultVars, asyncVars, focusedIndex, activeTab,
                   isOpen, searchVisible, domFocus>>

\* The user puts the focus into the search input with the mouse.
ClickSearchInput ==
    /\ lastEvent' = Event("clickSearch")
    /\ isOpen
    /\ NoMicrotask
    /\ searchVisible
    /\ domFocus # FocusSearch
    /\ domFocus' = FocusSearch
    /\ UNCHANGED <<restVars, handlerVars, timerVars, resultVars, asyncVars, focusedIndex,
                   activeTab, isOpen, searchValue, searchVisible>>

\* The debounce timeout runs its callback: updateResults.  No event is being
\* dispatched, so on the emojis tab the EmojiPicker is rendered by later tasks.
TimerFires(t) ==
    /\ lastEvent' = Event("timer")
    /\ t \in pendingTimers
    /\ NoMicrotask
    /\ pendingTimers' = pendingTimers \ {t}
    /\ refiltersSinceInput' = IF refiltersSinceInput < 2 THEN refiltersSinceInput + 1 ELSE 2
    /\ updateResults(activeTab, searchValue, FALSE)
    /\ domFocus' = FocusAfterUpdate(activeTab, domFocus, isOpen, FALSE)
    /\ UNCHANGED <<restVars, handlerVars, asyncVars, searchDebounceTimer, burstInputs,
                   activeTab, isOpen, searchValue, searchVisible>>

\* React's scheduler task: the EmojiPicker of the root is rendered and
\* committed; its elements are in the document, its mount effect is pending.
ReactRenders ==
    /\ lastEvent' = Event("reactRender")
    /\ NoMicrotask
    /\ reactRoot = 1
    /\ emojiPicker = RenderScheduled
    /\ emojiPicker' = EffectPending
    /\ UNCHANGED <<restVars, handlerVars, timerVars, asyncVars, gridItems, emptyMessage,
                   moreMessage, reactRoot, emojiInputValue, focusedIndex, activeTab,
                   isOpen, searchValue, searchVisible, domFocus>>

\* React's next task: useEffect(() => inputRef.current?.focus(), []).
ReactMountEffect ==
    /\ lastEvent' = Event("reactEffect")
    /\ NoMicrotask
    /\ reactRoot = 1
    /\ emojiPicker = EffectPending
    /\ emojiPicker' = Mounted
    /\ domFocus' = IF isOpen THEN FocusEmoji ELSE domFocus
    /\ UNCHANGED <<restVars, handlerVars, timerVars, asyncVars, gridItems, emptyMessage,
                   moreMessage, reactRoot, emojiInputValue, focusedIndex, activeTab,
                   isOpen, searchValue, searchVisible>>

\* ---- keyboard navigation ----

Keys == {"Tab", "ArrowLeft", "ArrowRight", "ArrowUp", "ArrowDown", "Enter", " ", "a"}

\* A plausible slip: the first cell takes the focus and the index is not set.
focusFirstIcon_IndexNotTracked(st) ==
    IF Len(gridItems) > 0
    THEN [focus |-> FocusCell(0), focusedIndex |-> st.focusedIndex]
    ELSE st

\* focusFirstIcon on the focus state [focus, focusedIndex]
focusFirstIcon(st) ==
    IF Len(gridItems) > 0
    THEN [focus |-> FocusCell(0), focusedIndex |-> 0]
    ELSE st

\* The keydown handler of the search input.
searchInputKeydown(st, key, shift) ==
    IF key = "Tab" /\ ~shift THEN focusFirstIcon(st) ELSE st

\* A plausible slip: ArrowRight does not test the end of the row.
NewIndex_RightWraps(key, currentIndex, count) ==
    CASE key = "ArrowLeft" ->
             IF currentIndex % gridColumns > 0 THEN currentIndex - 1 ELSE currentIndex
      [] key = "ArrowRight" ->
             IF currentIndex < count - 1 THEN currentIndex + 1 ELSE currentIndex
      [] key = "ArrowUp" ->
             IF currentIndex >= gridColumns THEN currentIndex - gridColumns
             ELSE currentIndex
      [] key = "ArrowDown" ->
             IF currentIndex + gridColumns < count THEN currentIndex + gridColumns
             ELSE currentIndex
      [] OTHER -> currentIndex

\* The index the switch of the contentEl handler computes for a key.
NewIndex(key, currentIndex, count) ==
    CASE key = "ArrowLeft" ->
             IF currentIndex % gridColumns > 0 THEN currentIndex - 1 ELSE currentIndex
      [] key = "ArrowRight" ->
             IF currentIndex % gridColumns < gridColumns - 1 /\ currentIndex < count - 1
             THEN currentIndex + 1 ELSE currentIndex
      [] key = "ArrowUp" ->
             IF currentIndex >= gridColumns THEN currentIndex - gridColumns
             ELSE currentIndex
      [] key = "ArrowDown" ->
             IF currentIndex + gridColumns < count THEN currentIndex + gridColumns
             ELSE currentIndex
      [] OTHER -> currentIndex

\* A plausible slip: Shift+Tab in the grid goes back to the search input and
\* leaves the tracked index as it is.
contentElKeydown_IndexKept(st, key, shift) ==
    LET count == Len(gridItems)
        currentIndex == st.focus.index
        newIndex == NewIndex(key, currentIndex, count)
        iconId == IF key \in {"Enter", " "} THEN gridItems[currentIndex + 1] ELSE <<>>
    IN IF count = 0 \/ st.focus.kind # "cell"
       THEN [focus |-> st.focus, focusedIndex |-> st.focusedIndex, select |-> <<>>]
       ELSE IF key = "Tab"
       THEN IF shift
            THEN [focus |-> FocusSearch, focusedIndex |-> st.focusedIndex,
                  select |-> <<>>]
            ELSE [focus |-> st.focus, focusedIndex |-> st.focusedIndex, select |-> <<>>]
       ELSE IF newIndex # currentIndex /\ newIndex >= 0 /\ newIndex < count
       THEN [focus |-> FocusCell(newIndex), focusedIndex |-> newIndex, select |-> iconId]
       ELSE [focus |-> st.focus, focusedIndex |-> st.focusedIndex, select |-> iconId]

\* The keydown handler of contentEl on the focus state: the new focus state and
\* the icon id handed to selectIcon (the empty string when none is).
contentElKeydown(st, key, shift) ==
    LET count == Len(gridItems)
        currentIndex == st.focus.index
        newIndex == NewIndex(key, currentIndex, count)
        iconId == IF key \in {"Enter", " "} THEN gridItems[currentIndex + 1] ELSE <<>>
    IN IF count = 0 \/ st.focus.kind # "cell"
       THEN [focus |-> st.focus, focusedIndex |-> st.focusedIndex, select |-> <<>>]
       ELSE IF key = "Tab"
       THEN IF shift
            THEN [focus |-> FocusSearch, focusedIndex |-> -1, select |-> <<>>]
            ELSE [focus |-> st.focus, focusedIndex |-> st.focusedIndex, select |-> <<>>]
       ELSE IF newIndex # currentIndex /\ newIndex >= 0 /\ newIndex < count
       THEN [focus |-> FocusCell(newIndex), focusedIndex |-> newIndex, select |-> iconId]
       ELSE [focus |-> st.focus, focusedIndex |-> st.focusedIndex, select |-> iconId]

\* Tab or Shift+Tab pressed in the search input: its own handler runs, then the
\* event bubbles to the handler of contentEl.
KeydownInSearch(shift) ==
    /\ lastEvent' = KeyEvent("keydownSearch", "Tab", shift)
    /\ isOpen
    /\ NoMicrotask
    /\ domFocus = FocusSearch
    /\ searchListeners > 0
    /\ LET st1 == searchInputKeydown([focus |-> domFocus, focusedIndex |-> focusedIndex],
                                     "Tab", shift)
           st2 == IF contentListeners > 0
                  THEN contentElKeydown(st1, "Tab", shift)
                  ELSE [focus |-> st1.focus, focusedIndex |-> st1.focusedIndex,
                        select |-> <<>>]
       IN /\ domFocus' = st2.focus
          /\ focusedIndex' = st2.focusedIndex
    /\ UNCHANGED <<restVars, handlerVars, timerVars, resultVars, asyncVars, activeTab,
                   isOpen, searchValue, searchVisible>>

\* A key pressed while a grid cell has the focus: the handler of contentEl.
KeydownInGrid(key, shift) ==
    /\ lastEvent' = KeyEvent("keydownGrid", key, shift)
    /\ isOpen
    /\ NoMicrotask
    /\ domFocus.kind = "cell"
    /\ contentListeners > 0
    /\ LET st == contentElKeydown([focus |-> domFocus, focusedIndex |-> focusedIndex],
                                  key, shift)
       IN /\ domFocus' = st.focus
          /\ focusedIndex' = st.focusedIndex
          /\ IF st.select # <<>>
             THEN selectIcon(st.select)
             ELSE UNCHANGED asyncVars
    /\ UNCHANGED <<restVars, handlerVars, timerVars, resultVars, activeTab,
                   isOpen, searchValue, searchVisible>>

\* A click on grid item number i (from 1): the item takes the focus (it has a
\* tabindex) and its click listener calls selectIcon.
ClickIconItem(i) ==
    /\ lastEvent' = Event("clickIcon")
    /\ isOpen
    /\ NoMicrotask
    /\ i \in 1..Len(gridItems)
    /\ domFocus' = FocusCell(i - 1)
    /\ selectIcon(gridItems[i])
    /\ UNCHANGED <<restVars, handlerVars, timerVars, resultVars, focusedIndex, activeTab,
                   isOpen, searchValue, searchVisible>>

\* ---- components/EmojiPicker ----

\* handleInputChange: the first code point of the typed value.
FirstChar(value) == IF value = <<>> THEN <<>> ELSE <<Head(value)>>

\* The user puts the focus into the emoji input with the mouse.
ClickEmojiInput ==
    /\ lastEvent' = Event("clickEmoji")
    /\ isOpen
    /\ NoMicrotask
    /\ reactRoot = 1
    /\ EmojiPickerInDocument
    /\ domFocus # FocusEmoji
    /\ domFocus' = FocusEmoji
    /\ UNCHANGED <<restVars, handlerVars, timerVars, resultVars, asyncVars, focusedIndex,
                   activeTab, isOpen, searchValue, searchVisible>>

\* handleInputChange, on the value the user has typed into the focused input.
EmojiInputChange(value) ==
    /\ lastEvent' = Event("emojiInput")
    /\ isOpen
    /\ NoMicrotask
    /\ reactRoot = 1
    /\ EmojiPickerInDocument
    /\ domFocus = FocusEmoji
    /\ FirstChar(value) # emojiInputValue
    /\ emojiInputValue' = FirstChar(value)
    /\ UNCHANGED <<restVars, handlerVars, timerVars, asyncVars, gridItems, emptyMessage,
                   moreMessage, reactRoot, emojiPicker, focusedIndex, activeTab, isOpen, searchValue,
                   searchVisible, domFocus>>

\* The submit button is disabled unless the input is an emoji.
SubmitDisabled == emojiInputValue = <<>> \/ ~isEmoji(emojiInputValue)
ValidationMessageShown == emojiInputValue # <<>> /\ ~isEmoji(emojiInputValue)

\* A plausible slip: the input is submitted as it is.
handleSubmit_NoValidation == selectIcon(emojiInputValue)

\* handleSubmit, from a click on the enabled button or from Enter in the input.
handleSubmit ==
    IF emojiInputValue # <<>> /\ isEmoji(emojiInputValue)
    THEN selectIcon(emojiInputValue)
    ELSE UNCHANGED asyncVars

EmojiSubmit(byKey) ==
    /\ lastEvent' = Event(IF byKey THEN "emojiEnter" ELSE "emojiSubmit")
    /\ isOpen
    /\ NoMicrotask
    /\ reactRoot = 1
    /\ EmojiPickerInDocument
    /\ byKey => domFocus = FocusEmoji
    /\ byKey \/ ~SubmitDisabled
    /\ handleSubmit
    /\ domFocus' = IF byKey THEN domFocus ELSE FocusSubmitButton
    /\ UNCHANGED <<restVars, handlerVars, timerVars, resultVars, focusedIndex, activeTab,
                   isOpen, searchValue, searchVisible>>

\* handleRecentEmojiClick on recently used emoji number i (from 1).
RecentEmojiClick(i) ==
    /\ lastEvent' = Event("emojiRecent")
    /\ isOpen
    /\ NoMicrotask
    /\ reactRoot = 1
    /\ EmojiPickerInDocument
    /\ i \in 1..Len(recentlyUsedEmojis)
    /\ selectIcon(recentlyUsedEmojis[i])
    /\ domFocus' = FocusRecentEmoji(i - 1)
    /\ UNCHANGED <<restVars, handlerVars, timerVars, resultVars, focusedIndex, activeTab,
                   isOpen, searchValue, searchVisible>>

\* ---- the metadata service settles; selectIcon resumes ----

AssignmentResolves(s) ==
    /\ lastEvent' = Event("resolve")
    /\ s \in 1..Len(selections)
    /\ selections[s].promise = "pending"
    /\ selections' = [selections EXCEPT ![s].promise = "fulfilled"]
    /\ UNCHANGED <<restVars, handlerVars, timerVars, resultVars, calls, focusedIndex,
                   activeTab, isOpen, searchValue, searchVisible, domFocus>>

AssignmentRejects(s) ==
    /\ lastEvent' = Event("reject")
    /\ s \in 1..Len(selections)
    /\ selections[s].promise = "pending"
    /\ selections' = [selections EXCEPT ![s].promise = "rejected"]
    /\ UNCHANGED <<restVars, handlerVars, timerVars, resultVars, calls, focusedIndex,
                   activeTab, isOpen, searchValue, searchVisible, domFocus>>

\* A plausible slip: a selection whose modal was closed in the meantime is
\* dropped when its assignment settles.
Resume_CancelledByClose(s) ==
    /\ lastEvent' = Event("resume")
    /\ s \in 1..Len(selections)
    /\ ResumeDue(selections[s])
    /\ IF selections[s].promise = "fulfilled" /\ isOpen
       THEN /\ selections' = [selections EXCEPT ![s].pc = "done", ![s].chosen = TRUE,
                                                ![s].closed = TRUE]
            /\ onClose
            /\ UNCHANGED <<restVars, calls, refiltersSinceInput, gridItems, emptyMessage,
                           moreMessage, focusedIndex, activeTab, searchValue,
                           searchVisible>>
       ELSE /\ selections' = [selections EXCEPT ![s].pc = "thrown"]
            /\ UNCHANGED <<restVars, handlerVars, timerVars, resultVars, calls,
                           focusedIndex, activeTab, isOpen, searchValue, searchVisible,
                           domFocus>>

\* A plausible slip: the assignment call is not awaited.
Resume_NotAwaited(s) ==
    /\ lastEvent' = Event("resume")
    /\ s \in 1..Len(selections)
    /\ selections[s].pc = "await"
    /\ selections' = [selections EXCEPT ![s].pc = "done", ![s].chosen = TRUE,
                                        ![s].closed = TRUE]
    /\ onClose
    /\ UNCHANGED <<restVars, calls, refiltersSinceInput, gridItems, emptyMessage,
                   moreMessage, focusedIndex, activeTab, searchValue, searchVisible>>

\* selectIcon after its await: on a fulfilled promise onChooseIcon is called and
\* the modal is closed; on a rejected one the await throws and the call ends.
\* reclosed records that close() was called on a modal that was not displayed.
Resume(s) ==
    /\ lastEvent' = Event("resume")
    /\ s \in 1..Len(selections)
    /\ ResumeDue(selections[s])
    /\ IF selections[s].promise = "fulfilled"
       THEN /\ selections' = [selections EXCEPT ![s].pc = "done", ![s].chosen = TRUE,
                                                ![s].closed = TRUE,
                                                ![s].reclosed = ~isOpen]
            /\ onClose
            /\ UNCHANGED <<restVars, calls, refiltersSinceInput, gridItems, emptyMessage,
                           moreMessage, focusedIndex, activeTab, searchValue,
                           searchVisible>>
       ELSE /\ selections' = [selections EXCEPT ![s].pc = "thrown"]
            /\ UNCHANGED <<restVars, handlerVars, timerVars, resultVars, calls,
                           focusedIndex, activeTab, isOpen, searchValue, searchVisible,
                           domFocus>>

\* ---- construction ----

FOLDER_OPEN == Str("folder-open")
LUCIDE_FILE == Str("lucide-file")
STALE_ICON == Str("old-icon")
ARTIST_PALETTE == <<127912>>
SmallCatalog == <<FOLDER_OPEN, LUCIDE_FILE>>

\* Twelve icons whose names contain "fold" and one that does not.
GridCatalog ==
    <<Str("folder"), Str("folder-a"), Str("folder-b"), Str("folder-c"),
      Str("folder-d"), Str("folder-e"), Str("folder-f"), Str("folder-g"),
      Str("folder-h"), Str("folder-i"), Str("folder-j"), Str("lucide-fold"),
      Str("file")>>

SearchTexts == {<<>>, Str("Fold"), Str("zz")}
EmojiTexts == {<<>>, ARTIST_PALETTE, Str("a")}
Targets == {[type |-> ItemTypeFOLDER, path |-> "notes"],
            [type |-> ItemTypeTAG, path |-> "todo"]}

\* The state the constructor leaves, for a catalog and a recently-used list,
\* in a run that follows budget selections and counts the input events of a
\* burst up to counted.
ConstructCounting(target, icons, supplied, budget, counted) ==
    /\ selectionBudget = budget
    /\ burstBudget = counted
    /\ burstInputs = 0
    /\ itemPath = target.path
    /\ itemType = target.type
    /\ allIcons = icons
    /\ suppliedRecentlyUsed = supplied
    /\ recentlyUsedIcons = ConstructRecentIcons(supplied, icons)
    /\ recentlyUsedEmojis = ConstructRecentEmojis(supplied)
    /\ focusedIndex = -1
    /\ searchInputKeydownHandler = FALSE
    /\ contentElKeydownHandler = FALSE
    /\ searchDebounceTimer = 0
    /\ activeTab = "icons"
    /\ reactRoot = 0
    /\ emojiPicker = NotRendered
    /\ isOpen = FALSE
    /\ searchValue = <<>>
    /\ searchVisible = FALSE
    /\ searchListeners = 0
    /\ contentListeners = 0
    /\ gridItems = <<>>
    /\ emptyMessage = NoMessage
    /\ moreMessage = 0
    /\ domFocus = FocusBody
    /\ emojiInputValue = <<>>
    /\ pendingTimers = {}
    /\ refiltersSinceInput = 0
    /\ calls = <<>>
    /\ selections = <<>>
    /\ lastEvent = Event("construct")

Construct(target, icons, supplied, budget) ==
    ConstructCounting(target, icons, supplied, budget, 0)

-----------------------------------------------------------------------------
(***************************************************************************)
(* components/FileItem: the feature image                                  *)
(***************************************************************************)

\* A frontmatter value as the YAML parser hands it over: absent (undefined), a
\* string, a number, a boolean or a list; str is its text.
AbsentValue == [type |-> "undefined", str |-> ""]
TextValue(str) == [type |-> "string", str |-> str]
NumberFrontmatter == [type |-> "number", str |-> "2024"]
ZeroFrontmatter == [type |-> "number", str |-> "0"]
BooleanFrontmatter(b) == [type |-> "boolean", str |-> IF b THEN "true" ELSE "false"]
ListFrontmatter == [type |-> "object", str |-> "a.png"]
NullFrontmatter == [type |-> "null", str |-> "null"]
NaNFrontmatter == [type |-> "number", str |-> "NaN"]
\* A member the frontmatter object inherits from Object.prototype.
FunctionValue(name) == [type |-> "function", str |-> name]

\* !imagePath: undefined, null, the empty string, 0, -0, NaN and false.
FalsyFrontmatter(v) ==
    \/ v.type \in {"undefined", "null"}
    \/ v.type = "string" /\ v.str = ""
    \/ v.type = "number" /\ v.str \in {"0", "-0", "NaN"}
    \/ v.type = "boolean" /\ v.str = "false"

\* What getFirstLinkpathDest returns: no file, or a file with its path.
NoFile == [exists |-> FALSE, path |-> "", extension |-> ""]
VaultFile(path, extension) ==
    [exists |-> TRUE, path |-> path, extension |-> extension]

\* The file of the item, by kind: an image, a markdown document, another file.
FileOfKind(kind) ==
    CASE kind = "image" -> [path |-> "photo.jpg", extension |-> "jpg"]
      [] kind = "md" -> [path |-> "page.md", extension |-> "md"]
      [] OTHER -> [path |-> "doc.pdf", extension |-> "pdf"]

isImageFile(file) == file.extension \in {"jpg", "png"}

\* app.metadataCache.getFirstLinkpathDest(linkpath, file.path)
getFirstLinkpathDest(in, linkpath) ==
    IF linkpath \in DOMAIN in.links THEN in.links[linkpath] ELSE NoFile

\* app.vault.getResourcePath(file): the URL, or it throws.
ResourcePathOf(path) == "app://" \o path
ResourceThrows(in, path) == path \in in.failing

\* A plausible slip: the brackets of a wikilink are kept.
UnwrapWikilink_KeepsBrackets(imagePath) == imagePath

\* imagePath.startsWith('[[') && imagePath.endsWith(']]') ? imagePath.slice(2, -2)
UnwrapWikilink(imagePath) ==
    IF /\ Len(imagePath) >= 2
       /\ SubSeq(imagePath, 1, 2) = "[["
       /\ SubSeq(imagePath, Len(imagePath) - 1, Len(imagePath)) = "]]"
    THEN SubSeq(imagePath, 3, Len(imagePath) - 2)
    ELSE imagePath

\* The value of the memo: a URL or null, or the error it threw; with the
\* files getResourcePath was called with.
NoImage(tried) == [url |-> NULL, threw |-> FALSE, calls |-> tried]
ImageAt(path, tried) == [url |-> ResourcePathOf(path), threw |-> FALSE, calls |-> tried]
TypeError(tried) == [url |-> NULL, threw |-> TRUE, calls |-> tried]

\* A plausible slip: a failing embed ends the search.
RECURSIVE WalkEmbeds_StopsAtFailure(_, _, _)
WalkEmbeds_StopsAtFailure(in, embeds, tried) ==
    IF embeds = <<>> THEN NoImage(tried)
    ELSE LET embedFile == getFirstLinkpathDest(in, Head(embeds))
         IN IF embedFile.exists /\ isImageFile(embedFile)
            THEN IF ResourceThrows(in, embedFile.path)
                 THEN NoImage(Append(tried, embedFile.path))
                 ELSE ImageAt(embedFile.path, Append(tried, embedFile.path))
            ELSE WalkEmbeds_StopsAtFailure(in, Tail(embeds), tried)

\* for (const embed of metadata.embeds)
RECURSIVE WalkEmbeds(_, _, _)
WalkEmbeds(in, embeds, tried) ==
    IF embeds = <<>> THEN NoImage(tried)
    ELSE LET embedFile == getFirstLinkpathDest(in, Head(embeds))
         IN IF embedFile.exists /\ isImageFile(embedFile)
            THEN IF ResourceThrows(in, embedFile.path)
                 THEN WalkEmbeds(in, Tail(embeds), Append(tried, embedFile.path))
                 ELSE ImageAt(embedFile.path, Append(tried, embedFile.path))
            ELSE WalkEmbeds(in, Tail(embeds), tried)

\* if (metadata?.embeds && metadata.embeds.length > 0)
EmbedsFallback(in, tried) ==
    IF in.metadata.present /\ in.metadata.embeds.present
       /\ Len(in.metadata.embeds.list) > 0
    THEN WalkEmbeds(in, in.metadata.embeds.list, tried)
    ELSE NoImage(tried)

\* metadata?.frontmatter?.[property]
FrontmatterValue(in, property) ==
    IF ~in.metadata.present \/ ~in.metadata.hasFrontmatter THEN AbsentValue
    ELSE IF property \in DOMAIN in.metadata.frontmatter
    THEN in.metadata.frontmatter[property]
    ELSE IF property \in ObjectPrototypeKeys THEN FunctionValue(property)
    ELSE AbsentValue

\* for (const property of settings.featureImageProperties), then the embeds.
\* imagePath.startsWith is a function on strings only: the call throws a
\* TypeError on any other truthy value.
RECURSIVE WalkProperties(_, _, _)
WalkProperties(in, properties, tried) ==
    IF properties = <<>> THEN EmbedsFallback(in, tried)
    ELSE LET imagePath == FrontmatterValue(in, Head(properties))
         IN IF FalsyFrontmatter(imagePath)
            THEN WalkProperties(in, Tail(properties), tried)
            ELSE IF imagePath.type # "string"
            THEN TypeError(tried)
            ELSE LET imageFile ==
                         getFirstLinkpathDest(in, UnwrapWikilink(imagePath.str))
                 IN IF ~imageFile.exists
                    THEN WalkProperties(in, Tail(properties), tried)
                    ELSE IF ResourceThrows(in, imageFile.path)
                    THEN WalkProperties(in, Tail(properties),
                                        Append(tried, imageFile.path))
                    ELSE ImageAt(imageFile.path, Append(tried, imageFile.path))

\* The featureImageUrl memo.
featureImageUrlOf(in) ==
    LET file == FileOfKind(in.kind)
    IN IF ~in.showFeatureImage THEN NoImage(<<>>)
       ELSE IF isImageFile(file)
       THEN IF ResourceThrows(in, file.path)
            THEN NoImage(<<file.path>>)
            ELSE ImageAt(file.path, <<file.path>>)
       ELSE IF file.extension = "md"
       THEN WalkProperties(in, in.featureImageProperties, <<>>)
       ELSE NoImage(<<>>)

\* ---- the inputs ----

PropertyNames == {"cover", "thumb"}
PropertyLists ==
    {<<>>, <<"cover">>, <<"thumb">>, <<"cover", "thumb">>, <<"thumb", "cover">>}
LinkPaths == {"a.png", "b.png", "c.png", "note"}

\* The vault: a.png and b.png may be missing, c.png is an image, the link
\* "note" leads to a document or nowhere.
LinkMaps ==
    {[l \in LinkPaths |->
         CASE l = "a.png" -> IF a THEN VaultFile("a.png", "png") ELSE NoFile
           [] l = "b.png" -> IF b THEN VaultFile("b.png", "png") ELSE NoFile
           [] l = "c.png" -> VaultFile("c.png", "png")
           [] OTHER -> IF n THEN VaultFile("note.md", "md") ELSE NoFile]
     : a \in BOOLEAN, b \in BOOLEAN, n \in BOOLEAN}

Frontmatters ==
    [cover : {AbsentValue, TextValue(""), TextValue("a.png"), TextValue("[[b.png]]"),
              TextValue("note"), NumberFrontmatter, ZeroFrontmatter, NaNFrontmatter,
              NullFrontmatter, BooleanFrontmatter(TRUE), BooleanFrontmatter(FALSE),
              ListFrontmatter},
     thumb : {AbsentValue, TextValue("[[b.png]]"), TextValue("a.png")}]

NoEmbeds == [present |-> FALSE, list |-> <<>>]
EmbedLists ==
    {NoEmbeds} \cup
    {[present |-> TRUE, list |-> l] :
        l \in {<<>>, <<"note", "c.png">>, <<"c.png", "a.png">>, <<"a.png", "c.png">>}}

\* A cache entry of a document without a frontmatter block
\* (metadata.frontmatter undefined).
NoFrontmatter == [p \in PropertyNames |-> AbsentValue]

NoMetadata ==
    [present |-> FALSE, hasFrontmatter |-> FALSE, frontmatter |-> NoFrontmatter,
     embeds |-> NoEmbeds]

Metadatas ==
    {NoMetadata}
        \cup {[present |-> TRUE, hasFrontmatter |-> TRUE, frontmatter |-> fm,
               embeds |-> e] : fm \in Frontmatters, e \in EmbedLists}
        \cup {[present |-> TRUE, hasFrontmatter |-> FALSE,
               frontmatter |-> NoFrontmatter, embeds |-> e] : e \in EmbedLists}

\* Documents with every combination of configuration, frontmatter, embeds,
\* vault content and failing resources; and files of every kind, with the
\* feature image enabled and disabled, on one metadata.
RichMetadata ==
    [present |-> TRUE, hasFrontmatter |-> TRUE,
     frontmatter |-> [cover |-> TextValue("a.png"), thumb |-> TextValue("[[b.png]]")],
     embeds |-> [present |-> TRUE, list |-> <<"c.png", "a.png">>]]
FullVault == CHOOSE m \in LinkMaps : \A l \in LinkPaths : m[l].exists

FeatureInputs ==
    [showFeatureImage : {TRUE}, kind : {"md"}, featureImageProperties : PropertyLists,
     metadata : Metadatas, links : LinkMaps, failing : SUBSET {"a.png", "b.png", "c.png"}]
    \cup
    [showFeatureImage : BOOLEAN, kind : {"image", "md", "other"},
     featureImageProperties : {<<"cover", "thumb">>},
     metadata : {NoMetadata, RichMetadata}, links : {FullVault},
     failing : {{}, {"photo.jpg"}, {"photo.jpg", "a.png", "b.png", "c.png"}}]

NotComputed == [done |-> FALSE, url |-> NULL, threw |-> FALSE]

FeatureIdle ==
    /\ featureInput = [showFeatureImage |-> FALSE, kind |-> "other",
                       featureImageProperties |-> <<>>, metadata |-> NoMetadata,
                       links |-> FullVault, failing |-> {}]
    /\ featureImageUrl = NotComputed
    /\ resourceCalls = <<>>

\* The memo is computed on a render.
ComputeFeatureImage ==
    /\ ~featureImageUrl.done
    /\ LET result == featureImageUrlOf(featureInput)
       IN /\ featureImageUrl' =
                 [done |-> TRUE, url |-> result.url, threw |-> result.threw]
          /\ resourceCalls' = result.calls
    /\ UNCHANGED <<featureInput, memoProps, memoResult, dateInput, displayDate,
                   classifierVars, resolverVars, sortVars, modalVars>>

-----------------------------------------------------------------------------
(***************************************************************************)
(* components/FileItem: the memo comparator                                *)
(***************************************************************************)

\* A plausible slip: the formatted date is not compared.
MemoComparator_NoFormattedDate(prevProps, nextProps) ==
    /\ prevProps.file.path = nextProps.file.path
    /\ prevProps.file.name = nextProps.file.name
    /\ prevProps.file.stat.mtime = nextProps.file.stat.mtime
    /\ prevProps.isSelected = nextProps.isSelected
    /\ prevProps.hasSelectedAbove = nextProps.hasSelectedAbove
    /\ prevProps.hasSelectedBelow = nextProps.hasSelectedBelow
    /\ prevProps.dateGroup = nextProps.dateGroup
    /\ prevProps.onClick = nextProps.onClick
    /\ prevProps.parentFolder = nextProps.parentFolder

\* The second argument of memo: TRUE when the props are equal and the render
\* is skipped.
MemoComparator(prevProps, nextProps) ==
    /\ prevProps.file.path = nextProps.file.path
    /\ prevProps.file.name = nextProps.file.name
    /\ prevProps.file.stat.mtime = nextProps.file.stat.mtime
    /\ prevProps.isSelected = nextProps.isSelected
    /\ prevProps.hasSelectedAbove = nextProps.hasSelectedAbove
    /\ prevProps.hasSelectedBelow = nextProps.hasSelectedBelow
    /\ prevProps.dateGroup = nextProps.dateGroup
    /\ prevProps.onClick = nextProps.onClick
    /\ prevProps.formattedDate = nextProps.formattedDate
    /\ prevProps.parentFolder = nextProps.parentFolder

\* FileItemProps.  The optional props are UNDEFINED when not passed; onClick
\* is the identity of the handler function.
TFiles ==
    [path : {"notes/a.md", "notes/b.md"}, name : {"a.md", "b.md"},
     stat : [mtime : {1, 2}, ctime : {1, 2}]]
PropsSet ==
    [file : TFiles, isSelected : BOOLEAN, hasSelectedAbove : BOOLEAN,
     hasSelectedBelow : BOOLEAN, dateGroup : {UNDEFINED, NULL, "Today"},
     onClick : {"handler-1", "handler-2"},
     formattedDate : {UNDEFINED, "", "Jan 1"},
     parentFolder : {UNDEFINED, NULL, "notes"}]

\* The props of the first render: with and without the optional props.
BareProps ==
    [file |-> [path |-> "notes/a.md", name |-> "a.md",
               stat |-> [mtime |-> 1, ctime |-> 1]],
     isSelected |-> FALSE, hasSelectedAbove |-> FALSE, hasSelectedBelow |-> FALSE,
     dateGroup |-> UNDEFINED, onClick |-> "handler-1", formattedDate |-> UNDEFINED,
     parentFolder |-> UNDEFINED]
FullProps ==
    [BareProps EXCEPT !.dateGroup = "Today", !.formattedDate = "Jan 1",
                      !.parentFolder = "notes", !.isSelected = TRUE]

NotCompared == [done |-> FALSE, equal |-> FALSE]

MemoIdle ==
    /\ memoProps = [prev |-> BareProps, next |-> BareProps]
    /\ memoResult = NotCompared

\* The parent renders again: memo compares the previous and the next props.
MemoCompare ==
    /\ ~memoResult.done
    /\ memoResult' = [done |-> TRUE,
                      equal |-> MemoComparator(memoProps.prev, memoProps.next)]
    /\ UNCHANGED <<memoProps, featureInput, featureImageUrl, resourceCalls, dateInput,
                   displayDate, classifierVars, resolverVars, sortVars, modalVars>>

-----------------------------------------------------------------------------
(***************************************************************************)
(* components/FileItem: the display date                                   *)
(***************************************************************************)

\* DateUtils.formatDate and DateUtils.formatDateForGroup: a text that shows
\* the timestamp it was made from, and the group when there is one.
formatDate(timestamp, dateFormat) == dateFormat \o ":" \o ToString(timestamp)
formatDateForGroup(timestamp, dateGroup, dateFormat, timeFormat) ==
    dateGroup \o "/" \o dateFormat \o ":" \o ToString(timestamp)

\* The displayDate memo, on the props and the context values it reads.
displayDateOf(in) ==
    IF in.formattedDate # UNDEFINED THEN in.formattedDate
    ELSE IF ~in.settings.showDate THEN ""
    ELSE LET dateField == getDateField(in.settings.defaultFolderSort)
             dateToShow == in.stat[dateField]
         IN IF TruthyString(in.dateGroup)
            THEN formatDateForGroup(dateToShow, in.dateGroup, in.settings.dateFormat,
                                    in.settings.timeFormat)
            ELSE formatDate(dateToShow, in.settings.dateFormat)

\* ---- the inputs ----

DateSettings ==
    [showDate : BOOLEAN, dateFormat : {"MMM d"}, timeFormat : {"h:mm"},
     defaultFolderSort : {"modified-desc", "created-asc", "title-asc"},
     folderSortOverrides :
         {AbsentMap, PresentMap([notes |-> "created-desc"]),
          PresentMap([notes |-> "modified-asc"])},
     tagSortOverrides : {AbsentMap, PresentMap([todo |-> "created-asc"])}]

DateInputs ==
    [formattedDate : {UNDEFINED, "", "Jan 1"},
     dateGroup : {UNDEFINED, NULL, "Today"},
     stat : [mtime : {1, 2}, ctime : {1, 2}],
     settings : DateSettings,
     selectionType : {ItemTypeFOLDER, ItemTypeTAG},
     selectedFolder : {NullObject, [path |-> "notes"]},
     selectedTag : {NULL, "todo"}]

NoDisplayDate == [done |-> FALSE, text |-> ""]

DateIdle ==
    /\ dateInput =
           [formattedDate |-> UNDEFINED, dateGroup |-> UNDEFINED,
            stat |-> [mtime |-> 1, ctime |-> 1],
            settings |-> [showDate |-> FALSE, dateFormat |-> "MMM d",
                          timeFormat |-> "h:mm", defaultFolderSort |-> "modified-desc",
                          folderSortOverrides |-> AbsentMap,
                          tagSortOverrides |-> AbsentMap],
            selectionType |-> ItemTypeFOLDER, selectedFolder |-> NullObject,
            selectedTag |-> NULL]
    /\ displayDate = NoDisplayDate

\* The memo is computed on a render.
ComputeDisplayDate ==
    /\ ~displayDate.done
    /\ displayDate' = [done |-> TRUE, text |-> displayDateOf(dateInput)]
    /\ UNCHANGED <<dateInput, featureInput, featureImageUrl, resourceCalls, memoProps,
                   memoResult, classifierVars, resolverVars, sortVars, modalVars>>

-----------------------------------------------------------------------------
(***************************************************************************)
(* Specifications                                                          *)
(***************************************************************************)

vars == <<resolverVars, sortVars, modalVars, pureVars>>

FileItemIdle == FeatureIdle /\ MemoIdle /\ DateIdle
PureIdle == ClassifierIdle /\ FileItemIdle

ResolverIdle ==
    /\ settings = [defaultFolderSort |-> "modified-desc",
                   folderSortOverrides |-> AbsentMap, tagSortOverrides |-> AbsentMap]
    /\ selectionType = ItemTypeFOLDER
    /\ selectedFolder = NullObject
    /\ selectedTag = NULL
    /\ effectiveSort = NONE

SortIdle ==
    /\ sortInput = <<>>
    /\ files = <<>>
    /\ sortOption = NONE
    /\ defaultLocale = "en-US"

ModalIdle ==
    Construct([type |-> ItemTypeFOLDER, path |-> "notes"], <<>>, <<>>, 0)

\* getEffectiveSortOption is called once on every combination of settings and
\* selection.
InitResolver ==
    /\ settings \in SettingsSet
    /\ selectionType \in {ItemTypeFOLDER, ItemTypeTAG}
    /\ selectedFolder \in FolderSet
    /\ selectedTag \in TagSet
    /\ effectiveSort = NONE
    /\ SortIdle
    /\ ModalIdle
    /\ PureIdle

ResolverNext == Resolve
SpecResolver == InitResolver /\ [][ResolverNext]_vars

\* sortFiles on every file array of the bounds, for each of the six options.
InitSort ==
    /\ \E n \in 0..MaxFiles : sortInput \in FileArrays(n)
    /\ files = sortInput
    /\ sortOption = NONE
    /\ defaultLocale \in DefaultLocales
    /\ ResolverIdle
    /\ ModalIdle
    /\ PureIdle

SortNext == \E opt \in SortOptionSet : SortFiles(opt)
SpecSort == InitSort /\ [][SortNext]_vars

\* The icon picker modal: every user event, timer and settlement.
Next ==
    \/ Open
    \/ Close
    \/ \E tab \in {"icons", "emojis"} : switchTab(tab)
    \/ \E text \in SearchTexts : TypeSearch(text)
    \/ ClickSearchInput
    \/ \E t \in pendingTimers : TimerFires(t)
    \/ ReactRenders
    \/ ReactMountEffect
    \/ \E shift \in BOOLEAN : KeydownInSearch(shift)
    \/ \E key \in Keys, shift \in BOOLEAN : KeydownInGrid(key, shift)
    \/ \E i \in 1..Len(gridItems) : ClickIconItem(i)
    \/ ClickEmojiInput
    \/ \E value \in EmojiTexts : EmojiInputChange(value)
    \/ \E byKey \in BOOLEAN : EmojiSubmit(byKey)
    \/ \E i \in 1..Len(recentlyUsedEmojis) : RecentEmojiClick(i)
    \/ \E s \in 1..Len(selections) : AssignmentResolves(s)
    \/ \E s \in 1..Len(selections) : AssignmentRejects(s)
    \/ \E s \in 1..Len(selections) : Resume(s)

\* The modal of a folder on a small catalog, under every event.
Init ==
    /\ Construct([type |-> ItemTypeFOLDER, path |-> "notes"], SmallCatalog,
                 <<FOLDER_OPEN, ARTIST_PALETTE, STALE_ICON>>, MaxSelections)
    /\ ResolverIdle
    /\ SortIdle
    /\ PureIdle

Spec == Init /\ [][Next]_vars

\* The modal of a folder and the modal of a tag, under every event that
\* selects an icon or an emoji and every event that leads to one; nothing is
\* typed into the search input.
InitAssign ==
    /\ \E target \in Targets :
           Construct(target, SmallCatalog, <<FOLDER_OPEN, ARTIST_PALETTE, STALE_ICON>>,
                     MaxSelections)
    /\ ResolverIdle
    /\ SortIdle
    /\ PureIdle

AssignNext ==
    \/ Open
    \/ Close
    \/ \E tab \in {"icons", "emojis"} : switchTab(tab)
    \/ \E shift \in BOOLEAN : KeydownInSearch(shift)
    \/ \E key \in Keys, shift \in BOOLEAN : KeydownInGrid(key, shift)
    \/ \E i \in 1..Len(gridItems) : ClickIconItem(i)
    \/ ClickEmojiInput
    \/ \E value \in EmojiTexts : EmojiInputChange(value)
    \/ \E byKey \in BOOLEAN : EmojiSubmit(byKey)
    \/ \E i \in 1..Len(recentlyUsedEmojis) : RecentEmojiClick(i)
    \/ \E s \in 1..Len(selections) : AssignmentResolves(s)
    \/ \E s \in 1..Len(selections) : AssignmentRejects(s)
    \/ \E s \in 1..Len(selections) : Resume(s)

SpecAssign == InitAssign /\ [][AssignNext]_vars

\* The modal on a catalog that fills more than two rows of the grid: a search
\* that matches twelve icons, and seven recently used icons.  One selection
\* is followed.
GridRecentlyUsed ==
    <<Str("file"), Str("folder-a"), Str("folder-b"), ARTIST_PALETTE, Str("folder-c"),
      Str("folder-d"), Str("folder-e"), Str("folder-f")>>

InitGrid ==
    /\ Construct([type |-> ItemTypeFOLDER, path |-> "notes"], GridCatalog,
                 GridRecentlyUsed, 1)
    /\ ResolverIdle
    /\ SortIdle
    /\ PureIdle

SpecGrid == InitGrid /\ [][Next]_vars

\* The search of the icons tab: catalogs with 0..MaxMatches icons named
\* folder-.., so that a search for "fold" has more matches than the grid
\* shows, and a catalog of differently built identifiers.
MaxMatches == 52

\* "folder-aa", "folder-ab", ...
NumberedIcon(k) ==
    Str("folder-") \o <<97 + ((k - 1) \div 26), 97 + ((k - 1) % 26)>>

\* n numbered icons, with the icon "file" in second place.
LargeCatalog(n) ==
    [i \in 1..(n + 1) |->
        IF n = 0 \/ i = 2 THEN Str("file")
        ELSE NumberedIcon(IF i = 1 THEN 1 ELSE i - 1)]

\* An icon of another icon pack whose id begins with a capital E acute.
E_ACUTE_CAPITAL == 201
ECRAN == <<E_ACUTE_CAPITAL>> \o Str("cran")

\* Icons of other packs: one whose id begins with an emoji above U+FFFF, and
\* one whose id begins with a capital letter that Unicode 16.0 gave the lower
\* case U+0264.
GRINNING_FACE == 128512
CAPITAL_RAMS_HORN == 42955
SMALL_RAMS_HORN == 612
\* A Greek id, alpha sigma alpha, with the sigma in the middle.
SMALL_ALPHA == 945
SMALL_SIGMA == 963

MixedCatalog ==
    <<FOLDER_OPEN, LUCIDE_FILE, Str("lucide-folder"), Str("scroll"), Str("a-fold"),
      ECRAN, <<GRINNING_FACE>> \o Str("-x"), <<CAPITAL_RAMS_HORN>> \o Str("-x"),
      <<SMALL_ALPHA, SMALL_SIGMA, SMALL_ALPHA>>>>

SearchCatalogs == {LargeCatalog(n) : n \in 0..MaxMatches} \cup {MixedCatalog}

\* The space an East Asian input method types, and the Kelvin sign, whose
\* lower case is the letter k.
IDEOGRAPHIC_SPACE == 12288
KELVIN_SIGN == 8490
\* The first code unit of GRINNING_FACE, on its own.
LONE_HIGH_SURROGATE == 55357

SearchTerms ==
    {<<>>, Str(" "), Str("fold"), Str("FOLD"), Str("Fold"), Str(" Fold "),
     Str("r o"), Str("r-o"), Str("lucide"), Str("zz"),
     <<IDEOGRAPHIC_SPACE>>, <<IDEOGRAPHIC_SPACE>> \o Str("fold"),
     <<E_ACUTE_CAPITAL>>, <<KELVIN_SIGN>>, <<LONE_HIGH_SURROGATE>>,
     <<SMALL_RAMS_HORN>>, <<SMALL_ALPHA, SMALL_SIGMA>>}

InitSearch ==
    /\ \E icons \in SearchCatalogs :
           Construct([type |-> ItemTypeFOLDER, path |-> "notes"], icons,
                     <<FOLDER_OPEN>>, 0)
    /\ ResolverIdle
    /\ SortIdle
    /\ PureIdle

SearchNext ==
    \/ Open
    \/ Close
    \/ \E text \in SearchTerms : TypeSearch(text)
    \/ \E t \in pendingTimers : TimerFires(t)

SpecSearch == InitSearch /\ [][SearchNext]_vars

\* The search input under bursts of typing, closes and re-opens.  The input
\* events of a burst are counted up to MaxBurst.  A burst is finite, and the
\* event loop runs the callback of a timeout that has expired: a pending timer
\* that is not cleared fires.
MaxBurst == 3

InitDebounce ==
    /\ ConstructCounting([type |-> ItemTypeFOLDER, path |-> "notes"], SmallCatalog,
                         <<FOLDER_OPEN>>, 0, MaxBurst)
    /\ ResolverIdle
    /\ SortIdle
    /\ PureIdle

\* What the user types in a burst.
BurstTexts ==
    SearchTexts \cup {Str("fold"), Str("FOLD"), Str(" Fold "), Str("r o"), Str("file")}

TimerExpires == \E t \in pendingTimers : TimerFires(t)

DebounceNext ==
    \/ Open
    \/ Close
    \/ \E text \in BurstTexts : TypeSearch(text)
    \/ TimerExpires

SpecDebounce == InitDebounce /\ [][DebounceNext]_vars /\ WF_vars(TimerExpires)

\* The constructor on every recently-used list of up to MaxSupplied entries:
\* icons of the catalog, an identifier the catalog no longer has, emojis, and
\* a text with an emoji in it.  The modal is opened and its tabs are shown.
MaxSupplied == 3
SUN == <<9728>>
FILE_WITH_EMOJI == Str("file ") \o ARTIST_PALETTE
SuppliedItems == {FOLDER_OPEN, LUCIDE_FILE, STALE_ICON, ARTIST_PALETTE, SUN, FILE_WITH_EMOJI}
SuppliedLists == UNION {[1..n -> SuppliedItems] : n \in 0..MaxSupplied}

InitCtor ==
    /\ \E supplied \in SuppliedLists :
           Construct([type |-> ItemTypeFOLDER, path |-> "notes"], SmallCatalog,
                     supplied, 0)
    /\ ResolverIdle
    /\ SortIdle
    /\ PureIdle

CtorNext ==
    \/ Open
    \/ Close
    \/ \E tab \in {"icons", "emojis"} : switchTab(tab)

SpecCtor == InitCtor /\ [][CtorNext]_vars

\* isEmoji on every string of up to MaxEmojiLen of the code points above and
\* on values that are not strings.
InitEmoji ==
    /\ \/ \E n \in 0..MaxEmojiLen :
              \E str \in [1..n -> BoundaryCodePoints] :
                  classifierInput = StringValue(str)
       \/ classifierInput \in NonStrings
    /\ classifierResult = NotClassified
    /\ ResolverIdle
    /\ SortIdle
    /\ ModalIdle
    /\ FileItemIdle

EmojiNext == Classify
SpecEmoji == InitEmoji /\ [][EmojiNext]_vars

\* The feature image of a file item, computed once on every input.
InitFeature ==
    /\ featureInput \in FeatureInputs
    /\ featureImageUrl = NotComputed
    /\ resourceCalls = <<>>
    /\ MemoIdle
    /\ DateIdle
    /\ ClassifierIdle
    /\ ResolverIdle
    /\ SortIdle
    /\ ModalIdle

FeatureNext == ComputeFeatureImage
SpecFeature == InitFeature /\ [][FeatureNext]_vars

\* The memo comparator on two first renders and every next render.
InitMemo ==
    /\ memoProps \in [prev : {BareProps, FullProps}, next : PropsSet]
    /\ memoResult = NotCompared
    /\ FeatureIdle
    /\ DateIdle
    /\ ClassifierIdle
    /\ ResolverIdle
    /\ SortIdle
    /\ ModalIdle

MemoNext == MemoCompare
SpecMemo == InitMemo /\ [][MemoNext]_vars

\* The display date of a file item, computed once on every input.
InitDate ==
    /\ dateInput \in DateInputs
    /\ displayDate = NoDisplayDate
    /\ FeatureIdle
    /\ MemoIdle
    /\ ClassifierIdle
    /\ ResolverIdle
    /\ SortIdle
    /\ ModalIdle

DateNext == ComputeDisplayDate
SpecDate == InitDate /\ [][DateNext]_vars


-----------------------------------------------------------------------------
(***************************************************************************)
(* Properties of the sort resolver and of sortFiles                        *)
(***************************************************************************)

FolderOverrideExists ==
    /\ selectedFolder # NullObject
    /\ settings.folderSortOverrides.present
    /\ selectedFolder.path \in DOMAIN settings.folderSortOverrides.map

TagIsSelected == selectedTag \notin {NULL, UNDEFINED, ""}

TagOverrideExists ==
    /\ TagIsSelected
    /\ settings.tagSortOverrides.present
    /\ selectedTag \in DOMAIN settings.tagSortOverrides.map

\* C1: getEffectiveSortOption returns the folder override of the selected
\* folder's path when the selection is a folder, a folder is selected and the
\* override exists; otherwise the tag override of the selected tag when the
\* selection is a tag, a tag is selected and the override exists; otherwise
\* exactly settings.defaultFolderSort.
C1_EffectiveSortResolution ==
    effectiveSort # NONE =>
        effectiveSort =
            IF selectionType = ItemTypeFOLDER /\ FolderOverrideExists
            THEN settings.folderSortOverrides.map[selectedFolder.path]
            ELSE IF selectionType = ItemTypeTAG /\ TagOverrideExists
            THEN settings.tagSortOverrides.map[selectedTag]
            ELSE settings.defaultFolderSort

\* A tag selection resolved to its tag override although the selected folder
\* has an override of its own and the default differs from both.
C1_Witness ==
    /\ effectiveSort # NONE
    /\ selectionType = ItemTypeTAG
    /\ FolderOverrideExists
    /\ TagOverrideExists
    /\ effectiveSort = settings.tagSortOverrides.map[selectedTag]
    /\ effectiveSort # settings.folderSortOverrides.map[selectedFolder.path]
    /\ effectiveSort # settings.defaultFolderSort

\* The name looked up for the selection is a member every object inherits and
\* the override map of the selection type is present without an entry of its
\* own for that name.
InheritedNameSelected ==
    \/ /\ selectionType = ItemTypeFOLDER
       /\ selectedFolder # NullObject
       /\ settings.folderSortOverrides.present
       /\ selectedFolder.path
              \in ObjectPrototypeKeys \ DOMAIN settings.folderSortOverrides.map
    \/ /\ selectionType = ItemTypeTAG
       /\ TagIsSelected
       /\ settings.tagSortOverrides.present
       /\ selectedTag \in ObjectPrototypeKeys \ DOMAIN settings.tagSortOverrides.map

\* For every other selection the resolution is the one C1 states, and for an
\* inherited name the result is the inherited member, which is no sort option.
EffectiveSortResolutionOfOwnNames ==
    effectiveSort # NONE =>
        IF InheritedNameSelected
        THEN effectiveSort \notin SortOptionSet
        ELSE C1_EffectiveSortResolution

Reverse(seq) == [i \in 1..Len(seq) |-> seq[Len(seq) + 1 - i]]

IsPermutationOf(out, in) ==
    /\ Len(out) = Len(in)
    /\ {out[i].id : i \in 1..Len(out)} = 1..Len(in)
    /\ \A i \in 1..Len(out) : out[i] = in[out[i].id]

\* The key of a file under a sort field, as an integer that grows with the order.
SortKey(field, f) ==
    CASE field = "modified" -> f.modified
      [] field = "created" -> f.created
      [] field = "title" -> LocaleRank(f.basename)

FieldOf(opt) ==
    CASE opt \in {"modified-asc", "modified-desc"} -> "modified"
      [] opt \in {"created-asc", "created-desc"} -> "created"
      [] opt \in {"title-asc", "title-desc"} -> "title"

IsAscending(opt) == opt \in {"modified-asc", "created-asc", "title-asc"}

AscendingOf(field) ==
    CASE field = "modified" -> "modified-asc"
      [] field = "created" -> "created-asc"
      [] field = "title" -> "title-asc"

KeySeq(field, arr) == [i \in 1..Len(arr) |-> SortKey(field, arr[i])]

\* C9: for each of the six options sortFiles leaves a permutation of its input
\* whose adjacent pairs are ordered by the option's field and direction
\* (non-decreasing for -asc, non-increasing for -desc); modified timestamps
\* 3,1,2 give 1,2,3 under modified-asc and 3,2,1 under modified-desc.
C9_SortedPermutation ==
    sortOption # NONE =>
        /\ IsPermutationOf(files, sortInput)
        /\ \A i \in 1..(Len(files) - 1) :
               IF IsAscending(sortOption)
               THEN SortKey(FieldOf(sortOption), files[i])
                        <= SortKey(FieldOf(sortOption), files[i + 1])
               ELSE SortKey(FieldOf(sortOption), files[i])
                        >= SortKey(FieldOf(sortOption), files[i + 1])
        /\ (KeySeq("modified", sortInput) = <<3, 1, 2>> /\ sortOption = "modified-asc")
               => KeySeq("modified", files) = <<1, 2, 3>>
        /\ (KeySeq("modified", sortInput) = <<3, 1, 2>> /\ sortOption = "modified-desc")
               => KeySeq("modified", files) = <<3, 2, 1>>

\* The example of the claim: 3,1,2 sorted by modified-desc.
C9_Witness ==
    /\ sortOption = "modified-desc"
    /\ KeySeq("modified", sortInput) = <<3, 1, 2>>
    /\ KeySeq("modified", files) = <<3, 2, 1>>
    /\ files # sortInput

DistinctKeys(field, arr) ==
    \A i, j \in 1..Len(arr) : i # j => SortKey(field, arr[i]) # SortKey(field, arr[j])

\* C10 as stated: the output of the descending option is exactly the reverse
\* of the output of the ascending option on the same input.
C10_Original_ExactReverse ==
    (sortOption # NONE /\ ~IsAscending(sortOption)) =>
        files = Reverse(sortFiles(sortInput, AscendingOf(FieldOf(sortOption))))

\* C10 as amended: the sequence of field values of the descending output is the
\* reverse of that of the ascending output, and the files themselves are in
\* exactly reversed order whenever their values of the field are pairwise
\* different (files that tie keep their input order under both directions).
C10_ReverseUpToTies ==
    (sortOption # NONE /\ ~IsAscending(sortOption)) =>
        LET field == FieldOf(sortOption)
            asc == sortFiles(sortInput, AscendingOf(field))
        IN /\ KeySeq(field, files) = Reverse(KeySeq(field, asc))
           /\ DistinctKeys(field, sortInput) => files = Reverse(asc)
           /\ \A i, j \in 1..Len(files) :
                  (i < j /\ SortKey(field, files[i]) = SortKey(field, files[j]))
                      => files[i].id < files[j].id

\* Three files with different modification times, sorted descending: the
\* reverse of the ascending order, and not the input order.
C10_Witness ==
    /\ sortOption = "modified-desc"
    /\ Len(files) = 3
    /\ DistinctKeys("modified", sortInput)
    /\ files = Reverse(sortFiles(sortInput, "modified-asc"))
    /\ files # sortInput

-----------------------------------------------------------------------------
(***************************************************************************)
(* Properties of the icon picker modal                                     *)
(***************************************************************************)

SelectionIds == 1..Len(selections)

\* C2: the close and the onChooseIcon call that a selection triggers happen
\* only after the assignment call made for that selection has settled; no
\* selection has closed the modal while its assignment is in flight.
C2_CloseAfterAssignmentSettled ==
    \A s \in SelectionIds :
        (selections[s].closed \/ selections[s].chosen \/ selections[s].pc # "await")
            => selections[s].promise # "pending"

\* A selection closed the modal, after its assignment was fulfilled, while the
\* assignment of a second selection is still in flight.
C2_Witness ==
    /\ Len(selections) = 2
    /\ selections[1].closed /\ selections[1].chosen
    /\ selections[1].promise = "fulfilled"
    /\ selections[2].promise = "pending"
    /\ ~selections[2].closed
    /\ ~isOpen

\* C3 as stated: every selection is followed by the modal being closed once
\* its assignment has settled, when it resolves and when it rejects: a
\* selectIcon call that has run to its end has closed the modal.
C3_ClosedOnceSettled ==
    \A s \in SelectionIds :
        (selections[s].promise # "pending" /\ selections[s].pc # "await")
            => selections[s].closed

ExpectedCall(iconId) ==
    [fn |-> IF itemType = ItemTypeTAG THEN "setTagIcon" ELSE "setFolderIcon",
     path |-> itemPath, iconId |-> iconId]

SelectionEvents ==
    {"keydownGrid", "clickIcon", "emojiEnter", "emojiSubmit", "emojiRecent"}

\* C4: each selection makes exactly one assignment call: setTagIcon(itemPath, id)
\* in a modal constructed for a tag, setFolderIcon(itemPath, id) otherwise;
\* never both, never for another path, on either tab; nothing else calls the
\* metadata service.
C4_OneAssignmentPerSelection ==
    /\ [](/\ Len(calls) = Len(selections)
          /\ \A s \in SelectionIds : calls[s] = ExpectedCall(selections[s].iconId))
    /\ [][IF Len(selections') > Len(selections)
          THEN /\ lastEvent'.name \in SelectionEvents
               /\ Len(selections') = Len(selections) + 1
               /\ calls' = Append(calls, ExpectedCall(selections'[Len(selections')].iconId))
          ELSE calls' = calls]_vars

\* A tag modal after two selections, an icon from the grid and an emoji.
C4_Witness ==
    /\ itemType = ItemTypeTAG
    /\ Len(calls) = 2
    /\ calls[1] = [fn |-> "setTagIcon", path |-> "todo", iconId |-> FOLDER_OPEN]
    /\ calls[2] = [fn |-> "setTagIcon", path |-> "todo", iconId |-> ARTIST_PALETTE]

ResultsFrame == <<gridItems, emptyMessage, moreMessage, focusedIndex>>

\* C5: once onClose has run the modal has no pending debounce timer, both
\* keydown handlers are detached and their fields null, and the emoji subtree
\* is unmounted; no timer re-filters the results while the modal is closed.
C5_CleanAfterClose ==
    /\ [](~isOpen =>
             /\ pendingTimers = {}
             /\ searchDebounceTimer = 0
             /\ ~searchInputKeydownHandler /\ searchListeners = 0
             /\ ~contentElKeydownHandler /\ contentListeners = 0
             /\ reactRoot = 0 /\ emojiPicker = NotRendered)
    /\ [][(~isOpen /\ ~isOpen') =>
             (lastEvent'.name # "timer" /\ UNCHANGED ResultsFrame)]_vars

\* The modal was closed with a debounce timer pending (text typed and not yet
\* re-filtered), on the emojis tab, with an assignment in flight.
C5_Witness ==
    /\ ~isOpen
    /\ lastEvent.name = "close"
    /\ activeTab = "emojis"
    /\ searchValue # <<>>
    /\ refiltersSinceInput = 0
    /\ \E s \in SelectionIds : selections[s].promise = "pending"

\* The timer discipline of the search input: every input event cancels the
\* pending timer and starts one, so at most one timer is pending; the input
\* event itself re-filters nothing; the results are re-filtered when the timer
\* expires, once, with the search text of that moment.
DebounceDiscipline ==
    /\ [](/\ Cardinality(pendingTimers) <= 1
          /\ refiltersSinceInput <= 1
          /\ pendingTimers # {} =>
                 (pendingTimers = {searchDebounceTimer} /\ refiltersSinceInput = 0))
    /\ [][lastEvent'.name = "input" =>
             /\ pendingTimers' = {searchDebounceTimer'}
             /\ searchDebounceTimer' # 0
             /\ UNCHANGED ResultsFrame]_vars
    /\ [][lastEvent'.name = "timer" =>
             /\ pendingTimers = {searchDebounceTimer}
             /\ pendingTimers' = {}
             /\ refiltersSinceInput = 0 /\ refiltersSinceInput' = 1
             /\ activeTab = "icons" =>
                    gridItems' = IconsTabContent(searchValue, allIcons,
                                                 recentlyUsedIcons).grid]_vars

\* A burst of input events waits for its re-filter; a timer has re-filtered.
BurstPending == pendingTimers # {}
RefilteredByTimer == lastEvent.name = "timer"

\* C6 as stated: the timer discipline, and every burst of input events causes
\* exactly one re-filter after its last event.
C6_Original_ExactlyOneRefilter ==
    /\ DebounceDiscipline
    /\ BurstPending ~> RefilteredByTimer

\* C6 as amended: the timer discipline, and a burst of input events causes
\* exactly one re-filter after its last event unless the modal is closed
\* first: the burst ends with the expiry of its one timer, which re-filters
\* once, or with a close, which cancels the timer and re-filters nothing, and
\* one of the two happens.
C6_Debounce ==
    /\ DebounceDiscipline
    /\ [][(BurstPending /\ ~BurstPending') =>
             \/ lastEvent'.name = "timer" /\ refiltersSinceInput' = 1
             \/ /\ lastEvent'.name = "close"
                /\ ~isOpen'
                /\ refiltersSinceInput' = 0
                /\ UNCHANGED ResultsFrame]_vars
    /\ BurstPending ~> (RefilteredByTimer \/ ~isOpen)

\* Three input events in a row, then the timer of the last one has expired
\* and re-filtered the results, once, with the text typed last.
C6_Witness ==
    /\ lastEvent.name = "timer"
    /\ isOpen
    /\ activeTab = "icons"
    /\ burstInputs = MaxBurst
    /\ searchValue = Str("Fold")
    /\ gridItems = <<FOLDER_OPEN>>
    /\ refiltersSinceInput = 1
    /\ pendingTimers = {}

IsGridKey(key) == lastEvent'.name = "keydownGrid" /\ lastEvent'.key = key

\* C7: the tracked focus index is -1 or the index of an existing grid item; in
\* a grid of 12 items ArrowDown goes from 0 to 5, from 5 to 10 and stays at 10.
C7_FocusIndexInBounds ==
    /\ [](focusedIndex = -1 \/ (focusedIndex >= 0 /\ focusedIndex < Len(gridItems)))
    /\ [](domFocus.kind = "cell" => domFocus.index \in 0..(Len(gridItems) - 1))
    /\ [][(IsGridKey("ArrowDown") /\ Len(gridItems) = 12) =>
             /\ domFocus = FocusCell(0)
                    => (domFocus' = FocusCell(5) /\ focusedIndex' = 5)
             /\ domFocus = FocusCell(5)
                    => (domFocus' = FocusCell(10) /\ focusedIndex' = 10)
             /\ domFocus = FocusCell(10)
                    => (domFocus' = FocusCell(10) /\ focusedIndex' = focusedIndex)]_vars

\* ArrowDown was pressed in the grid of 12 items and the focus is on item 10.
C7_Witness ==
    /\ lastEvent.name = "keydownGrid" /\ lastEvent.key = "ArrowDown"
    /\ Len(gridItems) = 12
    /\ domFocus = FocusCell(10)
    /\ focusedIndex = 10

Row(i) == i \div gridColumns
Column(i) == i % gridColumns

\* C8: with the focus on cell i of n an arrow key leaves the focus where it is
\* or moves it one cell in its direction without wrapping: left to i-1 only
\* off column 0, right to i+1 only off the last column and the last item, up to
\* i-5 only if i >= 5, down to i+5 only if i+5 < n; left and right keep the
\* row, up and down keep the column.
C8_ArrowKeysMoveToAdjacentCell ==
    [][(lastEvent'.name = "keydownGrid" /\ domFocus.kind = "cell") =>
          LET i == domFocus.index
              n == Len(gridItems)
              j == domFocus'.index
              moved == domFocus' # domFocus
          IN /\ IsGridKey("ArrowLeft") =>
                    /\ domFocus' \in {domFocus, FocusCell(i - 1)}
                    /\ moved => (Column(i) # 0 /\ Row(j) = Row(i))
                    /\ Column(i) # 0 => moved
             /\ IsGridKey("ArrowRight") =>
                    /\ domFocus' \in {domFocus, FocusCell(i + 1)}
                    /\ moved => (Column(i) # gridColumns - 1 /\ i # n - 1
                                 /\ Row(j) = Row(i))
                    /\ (Column(i) # gridColumns - 1 /\ i # n - 1) => moved
             /\ IsGridKey("ArrowUp") =>
                    /\ domFocus' \in {domFocus, FocusCell(i - gridColumns)}
                    /\ moved => (i >= gridColumns /\ Column(j) = Column(i))
                    /\ i >= gridColumns => moved
             /\ IsGridKey("ArrowDown") =>
                    /\ domFocus' \in {domFocus, FocusCell(i + gridColumns)}
                    /\ moved => (i + gridColumns < n /\ Column(j) = Column(i))
                    /\ i + gridColumns < n => moved
             /\ moved => focusedIndex' = j
             /\ lastEvent'.key \in {"ArrowLeft", "ArrowRight", "ArrowUp", "ArrowDown"}
                    => (moved \/ focusedIndex' = focusedIndex)]_vars

\* ArrowRight was pressed on the last item of the grid of 12 (index 11, column
\* 1 of the last row) and the focus stayed.
C8_Witness ==
    /\ lastEvent.name = "keydownGrid" /\ lastEvent.key = "ArrowRight"
    /\ Len(gridItems) = 12
    /\ domFocus = FocusCell(11)
    /\ focusedIndex = 10

-----------------------------------------------------------------------------
(***************************************************************************)
(* Properties of the search of the icons tab                               *)
(***************************************************************************)

Min(a, b) == IF a < b THEN a ELSE b

\* The search term of a re-filter, and the icons of the catalog that pass the
\* filter, in catalog order.
SearchTermOf(value) == trim(toLowerCase(value))
MatchingIcons(value) ==
    SelectSeq(allIcons, LAMBDA id : MatchesSearch(id, SearchTermOf(value)))

\* A re-filter of the icons tab with a non-empty search term.
IsSearchRefilter ==
    /\ lastEvent'.name = "timer"
    /\ activeTab = "icons"
    /\ SearchTermOf(searchValue) # <<>>

\* C11: for a non-empty search term with N matching icons the grid holds the
\* first min(N, 50) matches in catalog order, never more than 50; the overflow
\* message is shown exactly when N > 50 and the count it reports is N.
C11_ResultsCappedAt50 ==
    /\ [](Len(gridItems) <= 50)
    /\ [][IsSearchRefilter =>
             LET matches == MatchingIcons(searchValue)
                 N == Len(matches)
             IN /\ Len(gridItems') = Min(N, 50)
                /\ \A i \in 1..Len(gridItems') : gridItems'[i] = matches[i]
                /\ (moreMessage' # 0) <=> (N > 50)
                /\ N > 50 => moreMessage' = N]_vars

\* A search with 52 matches was rendered: 50 items and the count 52.
C11_Witness ==
    /\ lastEvent.name = "timer"
    /\ isOpen
    /\ Len(MatchingIcons(searchValue)) = 52
    /\ Len(gridItems) = 50
    /\ gridItems[2] = NumberedIcon(2)
    /\ moreMessage = 52

\* The display name, character by character: the prefix "lucide-" removed,
\* every hyphen a space, the first letter of every token in upper case.
DisplayNameOf(iconId) ==
    LET name == IF Len(iconId) >= 7 /\ SubSeq(iconId, 1, 7) = Str("lucide-")
                THEN SubSeq(iconId, 8, Len(iconId)) ELSE iconId
    IN Concat([i \in 1..Len(name) |->
                  IF name[i] = 45 THEN <<32>>
                  ELSE IF (i = 1 \/ name[i - 1] = 45) /\ name[i] <= MAX_CODE_UNIT
                  THEN UpperCodePoint(name[i])
                  ELSE <<name[i]>>])

\* part is a substring of str: strings are sequences of UTF-16 code units.
IsSubstring(part, str) ==
    LET whole == ToCodeUnits(str)
    IN \E i \in 1..(Len(whole) + 1) :
           \E j \in (i - 1)..Len(whole) : SubSeq(whole, i, j) = ToCodeUnits(part)

InMatchSet(iconId, value) ==
    LET term == trim(toLowerCase(value))
    IN \/ IsSubstring(term, toLowerCase(iconId))
       \/ IsSubstring(term, toLowerCase(DisplayNameOf(iconId)))

SeqRange(seq) == {seq[i] : i \in 1..Len(seq)}

\* The match set of a re-filter: an icon is a match exactly when the trimmed,
\* lower-cased search term is a substring of its lower-cased identifier or of
\* its lower-cased display name (prefix "lucide-" removed, tokens capitalised
\* and joined by spaces); the grid of a re-filter holds matches only, and all
\* of them when there is no overflow.
MatchSetOfTerm ==
    /\ [](getIconDisplayName(FOLDER_OPEN) = Str("Folder Open"))
    /\ [](\A i \in 1..Len(allIcons) :
              getIconDisplayName(allIcons[i]) = DisplayNameOf(allIcons[i]))
    /\ [][IsSearchRefilter =>
             LET matchSet == {id \in SeqRange(allIcons) : InMatchSet(id, searchValue)}
             IN /\ SeqRange(gridItems') \subseteq matchSet
                /\ moreMessage' = 0 => SeqRange(gridItems') = matchSet]_vars

\* The term in capital letters and in small letters, letter by letter, as a
\* user types it.
InCapitals(str) == Concat([i \in 1..Len(str) |-> UpperCodePoint(str[i])])
InSmallLetters(str) == Concat([i \in 1..Len(str) |-> LowerCodePoint(str[i])])

\* The grid a re-filter shows for a typed value.
ShownFor(value) == IconsTabContent(value, allIcons, recentlyUsedIcons).grid

\* C12: an icon is a match exactly when the trimmed, lower-cased search term is
\* a substring of its lower-cased identifier or of its lower-cased display
\* name, and matching is independent of the case of the search term: the term
\* typed in capital letters and the term typed in small letters show the grid
\* that the term as typed shows.
C12_SearchMatchSet ==
    /\ MatchSetOfTerm
    /\ [][IsSearchRefilter =>
             /\ ShownFor(InCapitals(searchValue)) = gridItems'
             /\ ShownFor(InSmallLetters(searchValue)) = gridItems']_vars

\* "r o" was searched: it occurs in the display name "Folder Open" only, and
\* folder-open is the one result.
DisplayNameMatched ==
    /\ lastEvent.name = "timer"
    /\ isOpen
    /\ searchValue = Str("r o")
    /\ allIcons = MixedCatalog
    /\ gridItems = <<FOLDER_OPEN>>

-----------------------------------------------------------------------------
(***************************************************************************)
(* Properties of the constructor and of the emoji classifier               *)
(***************************************************************************)

Count(seq, x) == Cardinality({i \in 1..Len(seq) : seq[i] = x})

\* part is seq with some entries left out, the others in their order.
IsSubsequenceOf(part, seq) ==
    \E f \in [1..Len(part) -> 1..Len(seq)] :
        /\ \A i \in 1..Len(part) : seq[f[i]] = part[i]
        /\ \A i, j \in 1..Len(part) : i < j => f[i] < f[j]

HasEmojiCodePoint(str) ==
    \E i \in 1..Len(str) :
        \/ str[i] \in 128512..128591 \/ str[i] \in 127744..128511
        \/ str[i] \in 128640..128767 \/ str[i] \in 127456..127487
        \/ str[i] \in 9728..9983 \/ str[i] \in 9984..10175
        \/ str[i] \in 129280..129535 \/ str[i] \in 127000..127600
        \/ str[i] \in 9100..9300 \/ str[i] \in 8400..8447

\* C13: the constructor splits the supplied list into two disjoint lists:
\* recentlyUsedEmojis has exactly the entries classified as emoji,
\* recentlyUsedIcons exactly the entries that are not and are in the catalog;
\* an entry that is neither is in no list; both lists keep the supplied order.
C13_RecentlyUsedSplit ==
    /\ SeqRange(recentlyUsedIcons) \cap SeqRange(recentlyUsedEmojis) = {}
    /\ \A item \in SeqRange(suppliedRecentlyUsed) \cup SeqRange(recentlyUsedIcons)
                    \cup SeqRange(recentlyUsedEmojis) :
           /\ Count(recentlyUsedEmojis, item) =
                  IF HasEmojiCodePoint(item) THEN Count(suppliedRecentlyUsed, item) ELSE 0
           /\ Count(recentlyUsedIcons, item) =
                  IF ~HasEmojiCodePoint(item) /\ item \in SeqRange(allIcons)
                  THEN Count(suppliedRecentlyUsed, item) ELSE 0
    /\ IsSubsequenceOf(recentlyUsedIcons, suppliedRecentlyUsed)
    /\ IsSubsequenceOf(recentlyUsedEmojis, suppliedRecentlyUsed)
    /\ (isOpen /\ activeTab = "icons") => gridItems = recentlyUsedIcons

\* A list with a stale identifier, an emoji and an icon was supplied, and the
\* opened modal shows the one icon.
C13_Witness ==
    /\ suppliedRecentlyUsed = <<STALE_ICON, ARTIST_PALETTE, FOLDER_OPEN>>
    /\ recentlyUsedIcons = <<FOLDER_OPEN>>
    /\ recentlyUsedEmojis = <<ARTIST_PALETTE>>
    /\ isOpen
    /\ gridItems = <<FOLDER_OPEN>>

\* The ranges as the source writes them, in hexadecimal.
InSourceRange(c) ==
    \/ c \in \H1F600..\H1F64F \/ c \in \H1F300..\H1F5FF
    \/ c \in \H1F680..\H1F6FF \/ c \in \H1F1E0..\H1F1FF
    \/ c \in \H2600..\H26FF \/ c \in \H2700..\H27BF
    \/ c \in \H1F900..\H1F9FF \/ c \in \H1F018..\H1F270
    \/ c \in \H238C..\H2454 \/ c \in \H20D0..\H20FF

\* C14: isEmoji is true exactly for a non-empty string with a code point in
\* one of the ten ranges; it is false for the empty string, for a value that
\* is not a string and for the letter a, and true for U+1F3A8.
C14_EmojiClassification ==
    /\ classifierResult.done =>
           classifierResult.value =
               (/\ classifierInput.type = "string"
                /\ classifierInput.str # <<>>
                /\ \E i \in 1..Len(classifierInput.str) :
                       InSourceRange(classifierInput.str[i]))
    /\ (classifierResult.done /\ classifierInput = StringValue(Str("a")))
           => ~classifierResult.value
    /\ (classifierResult.done /\ classifierInput = StringValue(<<\H1F3A8>>))
           => classifierResult.value

\* The classifier has answered true for a letter followed by the last code
\* point of the range 2700-27BF.
C14_Witness ==
    /\ classifierResult.done
    /\ classifierInput = StringValue(<<97, \H27BF>>)
    /\ classifierResult.value

-----------------------------------------------------------------------------
(***************************************************************************)
(* Properties of the emoji picker                                          *)
(***************************************************************************)

IsValidEmojiInput == emojiInputValue # <<>> /\ HasEmojiCodePoint(emojiInputValue)

\* C15: a submit (button or Enter) selects the input only when it is non-empty
\* and an emoji, and otherwise changes nothing; the button is disabled whenever
\* the input is empty or not an emoji, so a click on it happens on a valid
\* input only; the validation message is shown exactly when the input is
\* non-empty and not an emoji.
C15_EmojiSubmitValidated ==
    /\ [](SubmitDisabled <=> ~IsValidEmojiInput)
    /\ [](ValidationMessageShown <=>
              (emojiInputValue # <<>> /\ ~HasEmojiCodePoint(emojiInputValue)))
    /\ [][lastEvent'.name = "emojiSubmit" => IsValidEmojiInput]_vars
    /\ [][lastEvent'.name \in {"emojiSubmit", "emojiEnter"} =>
             IF IsValidEmojiInput
             THEN /\ Len(calls') = Len(calls) + 1
                  /\ calls'[Len(calls')].iconId = emojiInputValue
                  /\ Len(selections') = Len(selections) + 1
             ELSE UNCHANGED <<calls, selections, emojiInputValue, isOpen, reactRoot>>]_vars

\* Enter was pressed on the input "a": the message is shown, the button is
\* disabled and nothing was selected.
C15_Witness ==
    /\ lastEvent.name = "emojiEnter"
    /\ emojiInputValue = Str("a")
    /\ ValidationMessageShown
    /\ SubmitDisabled
    /\ calls = <<>>

-----------------------------------------------------------------------------
(***************************************************************************)
(* Properties of the file item                                             *)
(***************************************************************************)

\* The link a frontmatter text names: the text, or what is between [[ and ]].
LinkOfText(str) ==
    IF \E inner \in LinkPaths : str = "[[" \o inner \o "]]"
    THEN CHOOSE inner \in LinkPaths : str = "[[" \o inner \o "]]"
    ELSE str

\* The file the i-th configured property leads to, NoFile when it has no
\* text or the text leads nowhere.
PropertyTarget(in, i) ==
    LET property == in.featureImageProperties[i]
        value == IF in.metadata.present THEN in.metadata.frontmatter[property]
                 ELSE AbsentValue
    IN IF value.type = "string" /\ value.str \in LinkPaths \cup {"[[b.png]]"}
       THEN in.links[LinkOfText(value.str)]
       ELSE NoFile

EmbedsOf(in) ==
    IF in.metadata.present /\ in.metadata.embeds.present
    THEN in.metadata.embeds.list ELSE <<>>

\* The image file the j-th embed leads to, NoFile when it leads to none.
EmbedTarget(in, j) ==
    LET target == in.links[EmbedsOf(in)[j]]
    IN IF target.exists /\ target.extension = "png" THEN target ELSE NoFile

OnlyTextValues(in) ==
    \A i \in 1..Len(in.featureImageProperties) :
        in.metadata.present =>
            in.metadata.frontmatter[in.featureImageProperties[i]].type
                \in {"undefined", "string"}

Least(S) == CHOOSE x \in S : \A y \in S : x <= y

\* C16: with the feature image enabled and every resource readable, an image
\* file has its own resource path; a document has that of the first
\* configured property leading to a file, else that of the first embed leading
\* to an image file, else none; any other file has none.
C16_FeatureImagePriority ==
    LET in == featureInput
        propertyHits == {i \in 1..Len(in.featureImageProperties) :
                            PropertyTarget(in, i).exists}
        embedHits == {j \in 1..Len(EmbedsOf(in)) : EmbedTarget(in, j).exists}
    IN (/\ featureImageUrl.done
        /\ in.showFeatureImage
        /\ in.failing = {}) =>
           /\ ~featureImageUrl.threw
           /\ featureImageUrl.url =
                  CASE in.kind = "image" -> "app://photo.jpg"
                    [] in.kind = "md" /\ propertyHits # {} ->
                           "app://" \o PropertyTarget(in, Least(propertyHits)).path
                    [] in.kind = "md" /\ propertyHits = {} /\ embedHits # {} ->
                           "app://" \o EmbedTarget(in, Least(embedHits)).path
                    [] OTHER -> NULL

\* The second configured property is a wikilink to an image, the first leads
\* nowhere, and an embed is an image too: the property's image was taken.
C16_Witness ==
    /\ featureImageUrl.done
    /\ featureInput.kind = "md"
    /\ featureInput.failing = {}
    /\ featureInput.featureImageProperties = <<"cover", "thumb">>
    /\ featureInput.metadata.present
    /\ featureInput.metadata.frontmatter.cover = TextValue("a.png")
    /\ featureInput.metadata.frontmatter.thumb = TextValue("[[b.png]]")
    /\ ~featureInput.links["a.png"].exists
    /\ featureInput.links["b.png"].exists
    /\ featureInput.metadata.embeds.list = <<"c.png", "a.png">>
    /\ featureImageUrl.url = "app://b.png"

\* The files whose resource path is asked for, in the order of priority.
Candidates(in) ==
    LET propertyIndexes ==
            SelectSeq([i \in 1..Len(in.featureImageProperties) |-> i],
                      LAMBDA i : PropertyTarget(in, i).exists)
        embedIndexes ==
            SelectSeq([j \in 1..Len(EmbedsOf(in)) |-> j],
                      LAMBDA j : EmbedTarget(in, j).exists)
    IN IF ~in.showFeatureImage THEN <<>>
       ELSE CASE in.kind = "image" -> <<"photo.jpg">>
              [] in.kind = "md" ->
                     [k \in 1..Len(propertyIndexes) |->
                         PropertyTarget(in, propertyIndexes[k]).path]
                     \o [k \in 1..Len(embedIndexes) |->
                            EmbedTarget(in, embedIndexes[k]).path]
              [] OTHER -> <<>>

\* Nothing was thrown, and the candidates were tried once each in the order of
\* priority (own file; configured properties, then embeds) up to the first
\* readable one, which gives the URL; when none is readable there is no image.
CandidatesTriedInOrder ==
    LET in == featureInput
        candidates == Candidates(in)
        readable == {k \in 1..Len(candidates) : candidates[k] \notin in.failing}
    IN /\ ~featureImageUrl.threw
       /\ IF readable = {}
          THEN /\ featureImageUrl.url = NULL
               /\ resourceCalls = candidates
          ELSE /\ featureImageUrl.url = "app://" \o candidates[Least(readable)]
               /\ resourceCalls = SubSeq(candidates, 1, Least(readable))

\* A getResourcePath call of the computation has thrown.
SomeResourceFailed ==
    \E k \in 1..Len(resourceCalls) : resourceCalls[k] \in featureInput.failing

\* C17: a getResourcePath that throws is never propagated: the computation
\* goes on with the next candidate in the order of priority, each candidate is
\* tried once, the first that is readable gives the URL, and when none is the
\* result is no image.
C17_ResourceFailureSwallowed ==
    (featureImageUrl.done /\ SomeResourceFailed) => CandidatesTriedInOrder

\* Neither the images of the two properties nor the first embed could be
\* read; the second embed could.
C17_Witness ==
    /\ featureImageUrl.done
    /\ featureInput.kind = "md"
    /\ featureInput.failing = {"a.png", "b.png"}
    /\ resourceCalls = <<"a.png", "b.png", "a.png", "c.png">>
    /\ featureImageUrl.url = "app://c.png"

\* What holds of the priority order and of the failing resources: both
\* statements, for the inputs whose frontmatter values are strings or absent.
FeatureImagePriorityOfTextValues ==
    OnlyTextValues(featureInput) => C16_FeatureImagePriority
ResourceFailureSwallowedOfTextValues ==
    (featureImageUrl.done /\ OnlyTextValues(featureInput)) => CandidatesTriedInOrder

\* The props agree on what the specification lists: path, name, modification
\* time, selection flags, date group, click handler and formatted date.
AgreeOnListedProps(prev, next) ==
    /\ prev.file.path = next.file.path
    /\ prev.file.name = next.file.name
    /\ prev.file.stat.mtime = next.file.stat.mtime
    /\ <<prev.isSelected, prev.hasSelectedAbove, prev.hasSelectedBelow>> =
           <<next.isSelected, next.hasSelectedAbove, next.hasSelectedBelow>>
    /\ prev.dateGroup = next.dateGroup
    /\ prev.onClick = next.onClick
    /\ prev.formattedDate = next.formattedDate

\* C18: the render is skipped exactly when the props agree on the
\* listed inputs; the parent folder is not one of them.
C18_ListedPropsOnly ==
    memoResult.done =>
        (memoResult.equal <=> AgreeOnListedProps(memoProps.prev, memoProps.next))

\* What the comparator does: it reports the props equal, and the render is
\* skipped, exactly when they agree on the listed inputs and on the parent
\* folder; a change of the creation time alone is not seen.
MemoComparatorProps ==
    memoResult.done =>
        /\ memoResult.equal <=>
               (/\ AgreeOnListedProps(memoProps.prev, memoProps.next)
                /\ memoProps.prev.parentFolder = memoProps.next.parentFolder)
        /\ (memoProps.next =
                [memoProps.prev EXCEPT !.file.stat.ctime = memoProps.next.file.stat.ctime])
               => memoResult.equal

\* Only the creation time changed between the renders: the render is skipped.
CreationTimeAloneChanged ==
    /\ memoResult.done
    /\ memoProps.prev = FullProps
    /\ memoProps.next = [FullProps EXCEPT !.file.stat.ctime = 2]
    /\ memoResult.equal

\* The sort option in effect for the selection of the item's list.
EffectiveSortOf(in) ==
    LET folderOverride ==
            /\ in.selectionType = ItemTypeFOLDER
            /\ in.selectedFolder # NullObject
            /\ in.settings.folderSortOverrides.present
        tagOverride ==
            /\ in.selectionType = ItemTypeTAG
            /\ in.selectedTag = "todo"
            /\ in.settings.tagSortOverrides.present
    IN IF folderOverride THEN in.settings.folderSortOverrides.map.notes
       ELSE IF tagOverride THEN in.settings.tagSortOverrides.map.todo
       ELSE in.settings.defaultFolderSort

IsCreatedSort(option) == option \in {"created-asc", "created-desc"}

\* C19: the display date is the supplied formatted date when one is supplied,
\* empty when dates are not shown, and otherwise made from the created time
\* when the sort option in effect for the selection is a created-* option and
\* from the modified time otherwise.
C19_DisplayDateFromEffectiveSort ==
    LET in == dateInput
        timestamp == IF IsCreatedSort(EffectiveSortOf(in))
                     THEN in.stat.ctime ELSE in.stat.mtime
    IN displayDate.done =>
           displayDate.text =
               IF in.formattedDate # UNDEFINED THEN in.formattedDate
               ELSE IF ~in.settings.showDate THEN ""
               ELSE IF in.dateGroup = "Today"
               THEN "Today/MMM d:" \o ToString(timestamp)
               ELSE "MMM d:" \o ToString(timestamp)

\* Selection s has made its assignment call and the call has not settled.
InFlight(s) == selections[s].promise = "pending"

\* With a selection in flight the grid still takes a click: selectIcon tests
\* nothing before it calls the metadata service.
SecondSelectionAccepted ==
    (/\ isOpen
     /\ NoMicrotask
     /\ Len(gridItems) > 0
     /\ Len(selections) < selectionBudget
     /\ \E s \in SelectionIds : InFlight(s))
        => ENABLED ClickIconItem(1)

\* A selection made while another is in flight calls the metadata service
\* again and leaves both calls in flight.
SecondSelectionCallsAgain ==
    (/\ lastEvent'.name \in SelectionEvents
     /\ Len(selections') > Len(selections)
     /\ \E s \in SelectionIds : InFlight(s))
        => /\ calls' = Append(calls, ExpectedCall(selections'[Len(selections')].iconId))
           /\ \A s \in SelectionIds : InFlight(s) => selections'[s] = selections[s]
           /\ selections'[Len(selections')].promise = "pending"

\* A selectIcon call that has run past its await has called onChooseIcon and
\* close, whatever the other selections of the modal have done.
SettledSelectionChoosesAndCloses(s) ==
    (selections[s].promise # "pending" /\ selections[s].pc # "await")
        => selections[s].chosen /\ selections[s].closed

\* C20 as stated: a second selection made before the first selection's
\* assignment has settled is accepted and calls the assignment collaborator
\* again, and each settled assignment, resolved or rejected, invokes
\* onChooseIcon and close on its own.
C20_SecondSelectionNotGuarded ==
    /\ []SecondSelectionAccepted
    /\ [][SecondSelectionCallsAgain]_vars
    /\ [](\A s \in SelectionIds : SettledSelectionChoosesAndCloses(s))

CleanedUp ==
    /\ pendingTimers = {}
    /\ searchDebounceTimer = 0
    /\ ~searchInputKeydownHandler /\ searchListeners = 0
    /\ ~contentElKeydownHandler /\ contentListeners = 0
    /\ reactRoot = 0 /\ emojiPicker = NotRendered

\* C21: closing the modal leaves an assignment in flight as it is; when the
\* assignment of a selection resolves after the modal was closed, onChooseIcon
\* is still called with the selected id and close runs again, and that second
\* close leaves the cleaned-up state (no timer, no handlers, no mounted
\* subtree) unchanged.
C21_CloseDoesNotCancel ==
    /\ [][lastEvent'.name = "close" => UNCHANGED <<calls, selections>>]_vars
    /\ [][\A s \in SelectionIds :
              (/\ lastEvent'.name = "resume"
               /\ ~isOpen
               /\ selections[s].pc = "await"
               /\ selections'[s].pc # "await"
               /\ selections[s].promise = "fulfilled")
                  => /\ selections'[s].chosen /\ selections'[s].closed
                     /\ selections'[s].reclosed
                     /\ selections'[s].iconId = selections[s].iconId
                     /\ CleanedUp /\ CleanedUp'
                     /\ UNCHANGED <<handlerVars, timerVars, resultVars, isOpen,
                                    focusedIndex, activeTab, searchValue,
                                    searchVisible, domFocus>>]_vars

\* The modal was closed by the user with one assignment in flight; the
\* assignment then resolved and its selectIcon call ran to its end.
C21_Witness ==
    /\ Len(selections) = 1
    /\ lastEvent.name = "resume"
    /\ selections[1].chosen /\ selections[1].closed /\ selections[1].reclosed
    /\ ~isOpen
    /\ CleanedUp

\* The modal stays open on the emojis tab over the step, and the step is not
\* a tab switch.
StaysOnEmojisTab ==
    /\ isOpen /\ isOpen'
    /\ activeTab = "emojis" /\ activeTab' = "emojis"
    /\ lastEvent'.name # "switchTab"

\* C22 as stated: a tab switch leaves no pending re-filter behind, and while
\* the modal stays open on the emojis tab no event other than a tab switch or
\* a close re-renders the results: no debounce timer runs, the emoji picker
\* stays mounted and its typed emoji is changed by typing only.
C22_NoRefilterAfterTabSwitch ==
    /\ [][lastEvent'.name = "switchTab" => pendingTimers' = {}]_vars
    /\ [][StaysOnEmojisTab =>
             /\ lastEvent'.name # "timer"
             /\ reactRoot = 1 /\ reactRoot' = 1
             /\ lastEvent'.name # "emojiInput" => emojiInputValue' = emojiInputValue]_vars

\* C23: Tab pressed in the search field moves the focus to the first grid cell
\* and sets the tracked index to 0 when a grid item is rendered; with no grid
\* item the focus stays in the search field and the index stays -1.  Shift-Tab
\* pressed in the search field keeps the focus there.
C23_TabFromSearch ==
    [][lastEvent'.name = "keydownSearch" =>
          /\ domFocus = FocusSearch
          /\ IF lastEvent'.shift
             THEN domFocus' = FocusSearch /\ focusedIndex' = focusedIndex
             ELSE IF Len(gridItems) > 0
             THEN domFocus' = FocusCell(0) /\ focusedIndex' = 0
             ELSE /\ domFocus' = FocusSearch
                  /\ focusedIndex = -1 /\ focusedIndex' = -1]_vars

\* Tab was pressed in the search field above the results of a search: the
\* first cell has the focus.
C23_Witness ==
    /\ lastEvent = KeyEvent("keydownSearch", "Tab", FALSE)
    /\ searchValue = Str("Fold")
    /\ gridItems = <<FOLDER_OPEN>>
    /\ domFocus = FocusCell(0)
    /\ focusedIndex = 0

\* C24: with the focus on a grid cell, Shift-Tab gives the focus back to the
\* search field and resets the tracked index to -1; Tab leaves the focused
\* cell and the tracked index as they are.  Neither selects an icon.
C24_TabInsideGrid ==
    [][(lastEvent'.name = "keydownGrid" /\ lastEvent'.key = "Tab") =>
          /\ domFocus.kind = "cell"
          /\ UNCHANGED <<calls, selections>>
          /\ IF lastEvent'.shift
             THEN domFocus' = FocusSearch /\ focusedIndex' = -1
             ELSE UNCHANGED <<domFocus, focusedIndex>>]_vars

\* Shift-Tab was pressed on a cell the arrow keys had reached: the focus is
\* back in the search field above the same grid.
C24_Witness ==
    /\ lastEvent = KeyEvent("keydownGrid", "Tab", TRUE)
    /\ Len(gridItems) = 12
    /\ domFocus = FocusSearch
    /\ focusedIndex = -1

\* C25: after a switch to tab t the active tab is t, the search text is empty,
\* the results are those of t (the recently used icons on the icons tab, the
\* emoji picker on the emojis tab) with the tracked focus index at -1, and the
\* search input is visible exactly on the icons tab.
C25_TabSwitchResets ==
    [][lastEvent'.name = "switchTab" =>
          LET t == lastEvent'.key
          IN /\ t \in {"icons", "emojis"}
             /\ activeTab' = t
             /\ searchValue' = <<>>
             /\ focusedIndex' = -1
             /\ searchVisible' = (t = "icons")
             /\ IF t = "icons"
                THEN /\ reactRoot' = 0
                     /\ gridItems' = recentlyUsedIcons
                ELSE /\ reactRoot' = 1
                     /\ emojiPicker' = Mounted
                     /\ emojiInputValue' = <<>>
                     /\ gridItems' = <<>>
                     /\ emptyMessage' = NoMessage]_vars

\* A switch to the icons tab after a search was typed, its timer still pending:
\* the search text is gone and the recently used icons are shown.
C25_Witness ==
    /\ lastEvent = KeyEvent("switchTab", "icons", FALSE)
    /\ activeTab = "icons"
    /\ searchValue = <<>>
    /\ searchVisible
    /\ gridItems = <<FOLDER_OPEN>>
    /\ focusedIndex = -1
    /\ pendingTimers # {}

\* C26 as stated: every run of onOpen, a re-open included, leaves the modal in
\* its initial state: icons tab active, search text empty, search input
\* visible, no grid cell focused.
C26_OpensInInitialState ==
    [][lastEvent'.name = "open" =>
          /\ activeTab' = "icons"
          /\ searchValue' = <<>>
          /\ searchVisible'
          /\ focusedIndex' = -1
          /\ domFocus'.kind # "cell"]_vars

\* A re-render of the icons tab with a search text that is empty once trimmed.
IsEmptySearchRender ==
    /\ lastEvent'.name \in {"open", "switchTab", "timer"}
    /\ activeTab' = "icons"
    /\ SearchTermOf(searchValue') = <<>>

\* C27: rendered for an empty search, the icons tab shows the recently used
\* icons and nothing else of the catalog; with no recently used icon it shows
\* no grid and a message whose text differs, in every locale, from the text
\* shown when a non-empty search matches nothing.
C27_EmptySearchShowsRecentOnly ==
    /\ [][IsEmptySearchRender =>
             /\ gridItems' = recentlyUsedIcons
             /\ moreMessage' = 0
             /\ IF recentlyUsedIcons = <<>>
                THEN /\ emptyMessage' = "emptyStateSearch"
                     /\ \A locale \in Locales :
                            MessageText(locale, emptyMessage')
                                # MessageText(locale, "emptyStateNoResults")
                ELSE emptyMessage' = NoMessage]_vars
    /\ [][(IsSearchRefilter /\ MatchingIcons(searchValue) = <<>>) =>
             /\ gridItems' = <<>>
             /\ emptyMessage' = "emptyStateNoResults"]_vars

\* A search text of one space was rendered by a modal that has no recently
\* used icon and a catalog of several: no grid, the empty-state message.
C27_Witness ==
    /\ lastEvent.name = "timer"
    /\ isOpen
    /\ searchValue = Str(" ")
    /\ recentlyUsedIcons = <<>>
    /\ Len(allIcons) > 1
    /\ gridItems = <<>>
    /\ emptyMessage = "emptyStateSearch"

\* C28: every identifier handed to setFolderIcon or setTagIcon is an icon of
\* the catalog read at construction or a string isEmoji classifies as an
\* emoji: the former when the selection comes from the grid of the icons tab,
\* the latter when it comes from the emoji picker.
C28_OnlyCatalogIconsOrEmojis ==
    /\ [](\A c \in 1..Len(calls) :
              SeqContains(allIcons, calls[c].iconId) \/ isEmoji(calls[c].iconId))
    /\ [][Len(calls') > Len(calls) =>
             LET iconId == calls'[Len(calls')].iconId
             IN IF lastEvent'.name \in {"keydownGrid", "clickIcon"}
                THEN activeTab = "icons" /\ SeqContains(allIcons, iconId)
                ELSE /\ lastEvent'.name \in {"emojiEnter", "emojiSubmit", "emojiRecent"}
                     /\ activeTab = "emojis"
                     /\ isEmoji(iconId)]_vars

\* A folder's modal, given a recently-used list with a stale identifier in
\* it, after a recently used emoji was clicked and then an icon of the grid
\* chosen with the keyboard.
C28_Witness ==
    /\ itemType = ItemTypeFOLDER
    /\ SeqContains(suppliedRecentlyUsed, STALE_ICON)
    /\ Len(calls) = 2
    /\ calls[1].iconId = ARTIST_PALETTE
    /\ calls[2].iconId = FOLDER_OPEN
    /\ lastEvent.name = "keydownGrid"

\* C29: the value returned for a folder selection is returned as well for
\* every other tag override map and every other selected tag; the value
\* returned for a tag selection is returned as well for every other folder
\* override map and every other selected folder.
C29_OtherSelectionTypeIgnored ==
    effectiveSort # NONE =>
        /\ selectionType = ItemTypeFOLDER =>
               \A tagMap \in OptionalMaps(TagNames \cup {""}, OverrideValues),
                  tag \in TagSet :
                   getEffectiveSortOption([settings EXCEPT !.tagSortOverrides = tagMap],
                                          selectionType, selectedFolder, tag)
                       = effectiveSort
        /\ selectionType = ItemTypeTAG =>
               \A folderMap \in OptionalMaps(FolderPaths, OverrideValues),
                  folder \in FolderSet :
                   getEffectiveSortOption([settings EXCEPT !.folderSortOverrides = folderMap],
                                          selectionType, folder, selectedTag)
                       = effectiveSort

\* A tag selection without an override of its own resolved to the default
\* although the folder that is still selected has an override.
C29_Witness ==
    /\ effectiveSort # NONE
    /\ selectionType = ItemTypeTAG
    /\ selectedTag = "work"
    /\ ~TagOverrideExists
    /\ FolderOverrideExists
    /\ settings.folderSortOverrides.map[selectedFolder.path] # settings.defaultFolderSort
    /\ effectiveSort = settings.defaultFolderSort

\* The input with every frontmatter value that is not a string taken away.
WithoutNonStrings(in) ==
    [in EXCEPT !.metadata.frontmatter =
        [p \in PropertyNames |->
            IF in.metadata.frontmatter[p].type = "string"
            THEN in.metadata.frontmatter[p] ELSE AbsentValue]]

\* C30 as stated: the feature image is computed without an error for every
\* frontmatter value under a configured property, and a value that is not a
\* string counts as an absent one: the result is the one the same input gives
\* without it.
C30_NonStringValuesTolerated ==
    featureImageUrl.done =>
        /\ ~featureImageUrl.threw
        /\ featureImageUrl.url = featureImageUrlOf(WithoutNonStrings(featureInput)).url

====
